---- MODULE Spec2Model ----
(***************************************************************************)
(* PhantomDB: an append-only store of purchase records per merchant whose  *)
(* numeric fields are ciphertext handles (contracts/PhantomDB.sol), the    *)
(* hardhat task that decrypts a record, and the Records view of the        *)
(* frontend that lists a merchant's records and decrypts a row.            *)
(*                                                                         *)
(* The FHE library and the relayer are external: FHE.fromExternal,         *)
(* FHE.allow / FHE.allowThis and userDecrypt are modelled at the interface *)
(* the specification gives them (sections 4.2, 4.3 and 4.4).               *)
(***************************************************************************)
EXTENDS Integers, Sequences, FiniteSets, TLC

VARIABLES
    purchases,      \* _purchasesByMerchant: merchant -> sequence of Purchase
    acl,            \* the capability grants: set of <<handle, principal>>
    events,         \* the PurchaseAdded events emitted so far, in order
    blockTime,      \* block.timestamp of the next transaction
    lastCall,       \* the last call and how it ended
    okCount,        \* history: successful addPurchase calls per merchant
    account,        \* Records view: useAccount().address
    clock,          \* wall clock of the client and the relayer, in days
    isLoading,      \* Records view: useState isLoading
    error,          \* Records view: useState error
    count,          \* Records view: useState count
    rows,           \* Records view: useState rows
    decryptingIndex,\* Records view: useState decryptingIndex
    decrypted,      \* Records view: useState decrypted, row index -> DecryptedRow
    loads,          \* Records view: the load() calls in flight
    sessions,       \* Records view: the decryptRow() calls in flight
    lastOutcome,    \* history: how the last decryptRow() ended
    started,        \* history: the decryptRow() calls that passed the guard so far
    requests,       \* history: the userDecrypt requests sent to the relayer, in order
    resolved,       \* history: <<address, handles>> of the sessions that resolved
    activeTab,      \* PurchaseApp: useState activeTab
    refreshKey,     \* PurchaseApp: useState refreshKey
    fields,         \* PurchaseForm: useState userId, item, quantity, amount
    isSubmitting,   \* PurchaseForm: useState isSubmitting
    submits,        \* PurchaseForm: the submit() calls in flight
    lastSubmitted,  \* history: how the last submit() ended
    succeeded       \* history: the onSuccess() calls made so far

ledgerVars == <<purchases, acl, events, blockTime, lastCall, okCount>>

viewVars == <<account, clock, isLoading, error, count, rows, decryptingIndex, decrypted,
              loads, sessions, lastOutcome, started, requests, resolved>>

appVars == <<activeTab, refreshKey>>

formVars == <<fields, isSubmitting, submits, lastSubmitted, succeeded>>

vars == <<purchases, acl, events, blockTime, lastCall, okCount,
          account, clock, isLoading, error, count, rows, decryptingIndex, decrypted,
          loads, sessions, lastOutcome, started, requests, resolved,
          activeTab, refreshKey, fields, isSubmitting, submits, lastSubmitted, succeeded>>

----------------------------------------------------------------------------
(* Bounds of the model *)

MaxPurchases == 2       \* records in the store, all merchants together
MaxBlockTime == 2       \* last block timestamp
MaxLoads == 1           \* load() calls in flight in the Records view
MaxSessions == 1        \* decryptRow() calls in flight in the Records view
MaxClock == 10          \* last day of the wall clock
MaxStarted == 2         \* decryptRow() calls made in the Records view
MaxAppLoads == 2        \* load() calls in flight in the app, cancelled ones included
MaxRefreshKey == 1      \* clicks on the Refresh button
MaxSubmits == 2         \* submit() calls in flight in the app

(* Program constants *)

MaxItemBytes == 64
DurationDays == 10
MAX_TO_LOAD == 200
MaxItemLength == 64
UINT32_MAX == <<4, 2, 9, 4, 9, 6, 7, 2, 9, 5>>
UINT64_MAX == <<1, 8, 4, 4, 6, 7, 4, 4, 0, 7, 3, 7, 0, 9, 5, 5, 1, 6, 1, 5>>

----------------------------------------------------------------------------
(* Principals, items *)

This == "PhantomDB"

Users == {"alice", "bob"}

Principals == Users \cup {This}

\* An item is a string; the contract reads only bytes(item).length.
Items ==
    { [text |-> "", bytes |-> 0],
      [text |-> "C", bytes |-> 1],
      [text |-> "x64", bytes |-> 64],
      [text |-> "x65", bytes |-> 65] }

----------------------------------------------------------------------------
(* Encrypted inputs.  createEncryptedInput(contract, user).add32(userId)   *)
(* .add32(quantity).add64(amount).encrypt() gives three handles and one    *)
(* proof; <<user, k>> is the k-th input a user produced for this contract, *)
(* <<user, k, pos>> its handle number pos.                                 *)

Inputs == { <<"alice", 1>>, <<"alice", 2>>, <<"bob", 1>> }

NoHandle == <<"none", 0, 0>>

HandleOf(b, pos) == <<b[1], b[2], pos>>

Handles == { HandleOf(b, pos) : b \in Inputs, pos \in 1 .. 3 }

\* add32, add32, add64: the encrypted type of each handle of an input
HandleBits(h) == IF h[3] = 3 THEN 64 ELSE 32

\* The clear <<userId, quantity, amount>> of an input
ClearOf(b) == <<1000 + b[2], 1 + b[2], 700 * b[2]>>

\* The plaintext behind a handle
Plain(h) == ClearOf(<<h[1], h[2]>>)[h[3]]

\* FHE.fromExternal(handle, inputProof) for the type asked: the proof
\* authenticates the handle for the sender (and this contract).
FHE_verify(h, proof, bits, sender) ==
    /\ proof \in Inputs
    /\ h \in Handles
    /\ <<h[1], h[2]>> = proof
    /\ HandleBits(h) = bits
    /\ proof[1] = sender

\* Mutant: a grant replaces the grants the handle had.
FHE_allow_Exclusive(grants, h, who) ==
    { g \in grants : g[1] # h } \cup { <<h, who>> }

\* FHE.allow(handle, who): grants are additive, granting twice is a no-op
FHE_allow(grants, h, who) == grants \cup { <<h, who>> }

FHE_allowThis(grants, h) == FHE_allow(grants, h, This)

isGranted(h, who) == <<h, who>> \in acl

----------------------------------------------------------------------------
(* contracts/PhantomDB.sol *)

\* Mutant: only the empty item is rejected.
ItemValid_NoUpperBound(item) == ~(item.bytes = 0)

\* Mutant: an item of exactly MaxItemBytes bytes is rejected too.
ItemValid_ExclusiveUpper(item) == ~(item.bytes = 0 \/ item.bytes >= MaxItemBytes)

\* line 38: the item check
ItemValid(item) == ~(item.bytes = 0 \/ item.bytes > MaxItemBytes)

\* Mutant: the amount is taken as given, without FHE.fromExternal.
fromExternalAll_AmountUnchecked(sender, userIdExt, quantityExt, amountExt, inputProof) ==
    IF ~FHE_verify(userIdExt, inputProof, 32, sender) THEN 1
    ELSE IF ~FHE_verify(quantityExt, inputProof, 32, sender) THEN 2
    ELSE 0

\* lines 40-42: the three FHE.fromExternal calls, in order; the number of the
\* call that reverts, 0 when none does
fromExternalAll(sender, userIdExt, quantityExt, amountExt, inputProof) ==
    IF ~FHE_verify(userIdExt, inputProof, 32, sender) THEN 1
    ELSE IF ~FHE_verify(quantityExt, inputProof, 32, sender) THEN 2
    ELSE IF ~FHE_verify(amountExt, inputProof, 64, sender) THEN 3
    ELSE 0

\* Mutant: one array shared by all merchants.
push_Shared(store, sender, p) == [m \in DOMAIN store |-> Append(store[m], p)]

\* Mutant: the new record is put in front of the merchant's records.
push_Front(store, sender, p) == [store EXCEPT ![sender] = <<p>> \o @]

\* lines 44-52: _purchasesByMerchant[msg.sender].push(...)
push(store, sender, p) == [store EXCEPT ![sender] = Append(@, p)]

\* Mutant: the merchant is not allowed on the amount.
grantAccess_NoAmountForMerchant(grants, p, sender) ==
    LET g1 == FHE_allow(FHE_allowThis(grants, p.userId), p.userId, sender)
        g2 == FHE_allow(FHE_allowThis(g1, p.quantity), p.quantity, sender)
        g3 == FHE_allowThis(g2, p.amount)
    IN  g3

\* Mutant: every user is allowed on the handles, not only the sender.
grantAccess_Everyone(grants, p, sender) ==
    grants \cup ({p.userId, p.quantity, p.amount} \X (Users \cup {This}))

\* lines 57-65: allowThis and allow(msg.sender) on the three handles
grantAccess(grants, p, sender) ==
    LET g1 == FHE_allow(FHE_allowThis(grants, p.userId), p.userId, sender)
        g2 == FHE_allow(FHE_allowThis(g1, p.quantity), p.quantity, sender)
        g3 == FHE_allow(FHE_allowThis(g2, p.amount), p.amount, sender)
    IN  g3

\* Mutant: the event carries the new length instead of the index.
PurchaseAdded_LengthAsIndex(merchant, index, item, timestamp) ==
    [merchant |-> merchant, index |-> index + 1, item |-> item, timestamp |-> timestamp]

\* line 67: emit PurchaseAdded(msg.sender, index, item, uint64(block.timestamp))
PurchaseAdded(merchant, index, item, timestamp) ==
    [merchant |-> merchant, index |-> index, item |-> item, timestamp |-> timestamp]

\* A revert undoes every effect of the transaction.
Reverted(err, calls) ==
    [status |-> err, fromExternalCalls |-> calls, index |-> 0,
     purchases |-> purchases, acl |-> acl, events |-> events]

\* line 54
newIndex(store, sender) == Len(store[sender]) - 1

\* Mutant: the three FHE.fromExternal calls are made before the item check.
addPurchase_ProofFirst(sender, item, userIdExt, quantityExt, amountExt, inputProof) ==
    IF fromExternalAll(sender, userIdExt, quantityExt, amountExt, inputProof) # 0
    THEN Reverted("InvalidProof",
                  fromExternalAll(sender, userIdExt, quantityExt, amountExt, inputProof))
    ELSE IF ~ItemValid(item) THEN Reverted("InvalidItem", 3)
    ELSE
        LET pushed == push(purchases, sender,
                           [userId |-> userIdExt, item |-> item, quantity |-> quantityExt,
                            amount |-> amountExt, timestamp |-> blockTime])
            index == newIndex(pushed, sender)
            p == pushed[sender][index + 1]
        IN  [status |-> "ok", fromExternalCalls |-> 3, index |-> index,
             purchases |-> pushed,
             acl |-> grantAccess(acl, p, sender),
             events |-> Append(events, PurchaseAdded(sender, index, item, blockTime))]

\* lines 31-68
addPurchase(sender, item, userIdExt, quantityExt, amountExt, inputProof) ==
    IF ~ItemValid(item) THEN Reverted("InvalidItem", 0)
    ELSE IF fromExternalAll(sender, userIdExt, quantityExt, amountExt, inputProof) # 0
    THEN Reverted("InvalidProof",
                  fromExternalAll(sender, userIdExt, quantityExt, amountExt, inputProof))
    ELSE
        LET pushed == push(purchases, sender,
                           [userId |-> userIdExt, item |-> item, quantity |-> quantityExt,
                            amount |-> amountExt, timestamp |-> blockTime])
            index == newIndex(pushed, sender)
            p == pushed[sender][index + 1]
        IN  [status |-> "ok", fromExternalCalls |-> 3, index |-> index,
             purchases |-> pushed,
             acl |-> grantAccess(acl, p, sender),
             events |-> Append(events, PurchaseAdded(sender, index, item, blockTime))]

\* Mutant: the last index is returned instead of the length.
getPurchaseCount_LastIndex(merchant) ==
    IF Len(purchases[merchant]) = 0 THEN 0 ELSE Len(purchases[merchant]) - 1

getPurchaseCount(merchant) == Len(purchases[merchant])

\* Mutant: the bound check lets index = length through (the array access
\* then panics).
getPurchase_OffByOne(merchant, index) ==
    IF index > Len(purchases[merchant])
    THEN [status |-> "InvalidIndex"]
    ELSE IF index = Len(purchases[merchant])
    THEN [status |-> "Panic"]
    ELSE LET p == purchases[merchant][index + 1]
         IN  [status |-> "ok", userId |-> p.userId, item |-> p.item,
              quantity |-> p.quantity, amount |-> p.amount, timestamp |-> p.timestamp]

\* Mutant: the quantity handle is returned as the first field and the userId
\* handle as the third.
getPurchase_FieldsSwapped(merchant, index) ==
    IF index >= Len(purchases[merchant])
    THEN [status |-> "InvalidIndex"]
    ELSE LET p == purchases[merchant][index + 1]
         IN  [status |-> "ok", userId |-> p.quantity, item |-> p.item,
              quantity |-> p.userId, amount |-> p.amount, timestamp |-> p.timestamp]

getPurchase(merchant, index) ==
    IF index >= Len(purchases[merchant])
    THEN [status |-> "InvalidIndex"]
    ELSE LET p == purchases[merchant][index + 1]
         IN  [status |-> "ok", userId |-> p.userId, item |-> p.item,
              quantity |-> p.quantity, amount |-> p.amount, timestamp |-> p.timestamp]

----------------------------------------------------------------------------
(* The relayer's userDecrypt *)

\* signer.signTypedData over the message of createEIP712
Sign(signer, publicKey, contracts, start, duration) ==
    [signer |-> signer, publicKey |-> publicKey, contracts |-> contracts,
     start |-> start, duration |-> duration]

\* Mutant: the validity window of the authorization is not looked at.
userDecrypt_NoWindow(hs, publicKey, signature, contracts, userAddress, start, duration, at) ==
    IF /\ signature = Sign(userAddress, publicKey, contracts, start, duration)
       /\ \A h \in hs : isGranted(h, userAddress)
    THEN [status |-> "ok", plaintext |-> [h \in hs |-> Plain(h)]]
    ELSE [status |-> "denied"]

\* Mutant: the rejection names the validation that failed.
userDecrypt_ReasonLeaks(hs, publicKey, signature, contracts, userAddress, start, duration, at) ==
    IF ~(start <= at /\ at < start + duration)
    THEN [status |-> "expired"]
    ELSE IF signature # Sign(userAddress, publicKey, contracts, start, duration)
    THEN [status |-> "bad signature"]
    ELSE IF ~(\A h \in hs : isGranted(h, userAddress))
    THEN [status |-> "not granted"]
    ELSE [status |-> "ok", plaintext |-> [h \in hs |-> Plain(h)]]

userDecrypt(hs, publicKey, signature, contracts, userAddress, start, duration, at) ==
    IF /\ start <= at /\ at < start + duration
       /\ signature = Sign(userAddress, publicKey, contracts, start, duration)
       /\ \A h \in hs : isGranted(h, userAddress)
    THEN [status |-> "ok", plaintext |-> [h \in hs |-> Plain(h)]]
    ELSE [status |-> "denied"]

----------------------------------------------------------------------------
(* tasks/PhantomDB.ts: phantomdb:decrypt-purchase *)

\* fhevm.userDecryptEuint(type, handle, contract, signer): one session of its
\* own (keypair, signature of the signer, request in the signer's name)
userDecryptEuint(h, signer, at) ==
    userDecrypt({h}, <<signer, h>>, Sign(signer, <<signer, h>>, {This}, at, DurationDays),
                {This}, signer, at, DurationDays, at)

decryptPurchase(signer, merchant, index) ==
    LET purchase == getPurchase(merchant, index) IN
    IF purchase.status # "ok" THEN [status |-> purchase.status, n |-> 0]
    ELSE IF userDecryptEuint(purchase.userId, signer, 0).status # "ok"
         THEN [status |-> "denied", n |-> 0]
    ELSE IF userDecryptEuint(purchase.quantity, signer, 0).status # "ok"
         THEN [status |-> "denied", n |-> 1]
    ELSE IF userDecryptEuint(purchase.amount, signer, 0).status # "ok"
         THEN [status |-> "denied", n |-> 2]
    ELSE [status |-> "ok", n |-> 3]

----------------------------------------------------------------------------
(* Actions *)

TotalPurchases == Len(purchases["alice"]) + Len(purchases["bob"])

NoCall == [op |-> "none", status |-> "ok", n |-> 0]

NoAccount == "none"

NoIndex == -1

NoOutcome == "none"

\* PurchaseForm as mounted: every field is the empty string
NoFields ==
    [userId |-> <<>>, item |-> [text |-> "", pad |-> 0, units |-> 0, bytes |-> 0],
     quantity |-> <<>>, amount |-> <<>>]

\* The contract as deployed
InitLedger ==
    /\ purchases = [m \in Users |-> <<>>]
    /\ acl = {}
    /\ events = <<>>
    /\ blockTime = 1
    /\ lastCall = NoCall
    /\ okCount = [m \in Users |-> 0]

\* No Records view is mounted
InitNoView ==
    /\ account = NoAccount
    /\ clock = 0
    /\ isLoading = FALSE
    /\ error = ""
    /\ count = 0
    /\ rows = <<>>
    /\ decryptingIndex = NoIndex
    /\ decrypted = <<>>
    /\ loads = <<>>
    /\ sessions = <<>>
    /\ lastOutcome = NoOutcome
    /\ started = 0
    /\ requests = <<>>
    /\ resolved = {}
    /\ activeTab = "add"
    /\ refreshKey = 0
    /\ fields = NoFields
    /\ isSubmitting = FALSE
    /\ submits = <<>>
    /\ lastSubmitted = NoOutcome
    /\ succeeded = 0

Init == InitLedger /\ InitNoView

\* What a caller submits from the encrypted input b: <<userIdExt, quantityExt,
\* amountExt, inputProof>> as produced, or with one of them replaced.
Shapes == {"asis", "bad2", "bad3"}

Submission(b, shape) ==
    LET h1 == HandleOf(b, 1)
        h2 == HandleOf(b, 2)
        h3 == HandleOf(b, 3)
    IN  CASE shape = "asis" -> <<h1, h2, h3, b>>
          [] shape = "bad2" -> <<h1, NoHandle, h3, b>>
          [] shape = "bad3" -> <<h1, h2, h1, b>>

\* The transaction of an addPurchase call: what it does to the contract
Transact(sender, item, u, q, a, proof) ==
    \E r \in {addPurchase(sender, item, u, q, a, proof)} :
        /\ r.status = "ok" => Len(events) < MaxPurchases
        /\ purchases' = r.purchases
        /\ acl' = r.acl
        /\ events' = r.events
        /\ okCount' = IF r.status = "ok" THEN [okCount EXCEPT ![sender] = @ + 1] ELSE okCount
        /\ lastCall' = [op |-> "addPurchase", status |-> r.status,
                        n |-> IF r.status = "ok" THEN r.index ELSE r.fromExternalCalls]
        /\ UNCHANGED blockTime

AddPurchase(sender, item, u, q, a, proof) ==
    /\ Transact(sender, item, u, q, a, proof)
    /\ UNCHANGED <<viewVars, appVars, formVars>>

GetPurchaseCount(merchant) ==
    /\ lastCall' = [op |-> "getPurchaseCount", status |-> "ok",
                    n |-> getPurchaseCount(merchant)]
    /\ UNCHANGED <<purchases, acl, events, blockTime, okCount, viewVars, appVars, formVars>>

GetPurchase(merchant, index) ==
    /\ lastCall' = [op |-> "getPurchase", status |-> getPurchase(merchant, index).status,
                    n |-> 0]
    /\ UNCHANGED <<purchases, acl, events, blockTime, okCount, viewVars, appVars, formVars>>

DecryptPurchase(signer, merchant, index) ==
    \E r \in {decryptPurchase(signer, merchant, index)} :
        /\ lastCall' = [op |-> "decrypt-purchase", status |-> r.status, n |-> r.n]
        /\ UNCHANGED <<purchases, acl, events, blockTime, okCount, viewVars, appVars, formVars>>

NextBlock ==
    /\ blockTime < MaxBlockTime
    /\ blockTime' = blockTime + 1
    /\ UNCHANGED <<purchases, acl, events, lastCall, okCount, viewVars, appVars, formVars>>

Next ==
    \/ \E sender \in Users, item \in Items, b \in Inputs, shape \in Shapes :
          \E s \in {Submission(b, shape)} : AddPurchase(sender, item, s[1], s[2], s[3], s[4])
    \/ \E merchant \in Users : GetPurchaseCount(merchant)
    \/ \E merchant \in Users, index \in 0 .. MaxPurchases : GetPurchase(merchant, index)
    \/ \E signer \in Users, merchant \in Users, index \in 0 .. MaxPurchases :
          DecryptPurchase(signer, merchant, index)
    \/ NextBlock

Spec == Init /\ [][Next]_vars

----------------------------------------------------------------------------
(* components/PurchaseRecords.tsx *)

RemoveAt(seq, k) == SubSeq(seq, 1, k - 1) \o SubSeq(seq, k + 1, Len(seq))

\* lines 78-86: the RecordRow made of what getPurchase returned for idx
RecordRow(idx, p) ==
    [index |-> idx, userIdHandle |-> p.userId, item |-> p.item,
     quantityHandle |-> p.quantity, amountHandle |-> p.amount, timestamp |-> p.timestamp]

\* line 64, for a cap of cap records
cappedAt(purchaseCount, cap) == IF purchaseCount > cap THEN cap ELSE purchaseCount

\* line 64
capped(purchaseCount) == cappedAt(purchaseCount, MAX_TO_LOAD)

\* Mutant: the indices are listed from the oldest record on.
indicesAt_OldestFirst(purchaseCount, cap) ==
    [i \in 1 .. cappedAt(purchaseCount, cap) |-> i - 1]

\* lines 65-68, for a cap of cap records: indices[i], i counted from 1
indicesAt(purchaseCount, cap) ==
    [i \in 1 .. cappedAt(purchaseCount, cap) |-> purchaseCount - 1 - (i - 1)]

\* lines 65-68
indices(purchaseCount) == indicesAt(purchaseCount, MAX_TO_LOAD)

\* Mutant: the amount handle is left out of the batch.
handleContractPairs_NoAmount(row) == {row.userIdHandle, row.quantityHandle}

\* lines 118-122: the handles of the batch
handleContractPairs(row) == {row.userIdHandle, row.quantityHandle, row.amountHandle}

\* String(result[handle] ?? '')
StringOf(result, h) == IF h \in DOMAIN result THEN ToString(result[h]) ELSE ""

\* lines 146-153: setDecrypted((prev) => ({...prev, [row.index]: {...}}))
setDecrypted(prev, row, result) ==
    [k \in DOMAIN prev \cup {row.index} |->
        IF k = row.index
        THEN [userId |-> StringOf(result, row.userIdHandle),
              quantity |-> StringOf(result, row.quantityHandle),
              amount |-> StringOf(result, row.amountHandle)]
        ELSE prev[k]]

\* Mutant: one keypair, generated once, serves every call.
publicKeyOf_Shared(s) == <<"key", 1>>

\* instance.generateKeypair(): the public key of the keypair the call
\* generates, a new one at every call
publicKeyOf(s) == <<"key", s.id>>

\* lines 135-144: the arguments of instance.userDecrypt
Request(s) ==
    [handles |-> handleContractPairs(s.row),
     publicKey |-> publicKeyOf(s),
     signature |-> Sign(s.address, publicKeyOf(s), {This}, s.start, DurationDays),
     contracts |-> {This},
     userAddress |-> s.address,
     start |-> s.start,
     duration |-> DurationDays]

\* line 156: what the alert shows of a failed userDecrypt, the message of
\* the error the relayer answered with
FailedToDecrypt(res) == IF res.status = "denied" THEN "rejected" ELSE res.status

\* No record: a load that no submission triggered
NoRecord == <<NoAccount, NoIndex>>

\* lines 47-52: a call of load() by the effect, up to its first await. The
\* snapshot (the records of the address when the count was read) and after
\* (the record whose confirmation made the effect run) are history.
load(address, after) ==
    [cancelled |-> FALSE, pc |-> "count", purchaseCount |-> 0, address |-> address,
     snapshot |-> <<>>, after |-> after]

\* The view is mounted for a connected account: its effect has called load(),
\* which runs up to its first await.
InitView ==
    /\ account = "alice"
    /\ clock = 0
    /\ isLoading = TRUE
    /\ error = ""
    /\ count = 0
    /\ rows = <<>>
    /\ decryptingIndex = NoIndex
    /\ decrypted = <<>>
    /\ loads = << load(account, NoRecord) >>
    /\ sessions = <<>>
    /\ lastOutcome = NoOutcome
    /\ started = 0
    /\ requests = <<>>
    /\ resolved = {}
    /\ activeTab = "records"
    /\ refreshKey = 0
    /\ fields = NoFields
    /\ isSubmitting = FALSE
    /\ submits = <<>>
    /\ lastSubmitted = NoOutcome
    /\ succeeded = 0

\* The Refresh button: refreshKey changes, the effect's cleanup cancels the
\* load in flight and the effect calls load() again.
Refresh ==
    /\ account # NoAccount
    /\ Len(loads) < MaxLoads
    /\ loads' = Append([k \in 1 .. Len(loads) |-> [loads[k] EXCEPT !.cancelled = TRUE]],
                       load(account, NoRecord))
    /\ isLoading' = TRUE
    /\ error' = ""
    /\ UNCHANGED <<appVars, formVars, ledgerVars, account, clock, count, rows, decryptingIndex, decrypted,
                   sessions, lastOutcome, started, requests, resolved>>

\* The wallet switches to another account: address changes, the view stays
\* mounted with its state, the effect's cleanup cancels the load in flight
\* and the effect calls load() for the new address.
SwitchAccount(to) ==
    /\ account # NoAccount
    /\ to # account
    /\ Len(loads) < MaxLoads
    /\ account' = to
    /\ loads' = Append([k \in 1 .. Len(loads) |-> [loads[k] EXCEPT !.cancelled = TRUE]],
                       load(to, NoRecord))
    /\ isLoading' = TRUE
    /\ error' = ""
    /\ UNCHANGED <<appVars, formVars, ledgerVars, clock, count, rows, decryptingIndex, decrypted,
                   sessions, lastOutcome, started, requests, resolved>>

\* lines 54-62: getPurchaseCount has answered
LoadCount(k) ==
    /\ k \in 1 .. Len(loads)
    /\ loads[k].pc = "count"
    /\ IF loads[k].cancelled
       THEN /\ loads' = RemoveAt(loads, k)
            /\ UNCHANGED count
       ELSE /\ count' = getPurchaseCount(loads[k].address)
            /\ loads' = [loads EXCEPT ![k].pc = "rows",
                                      ![k].purchaseCount = getPurchaseCount(loads[k].address),
                                      ![k].snapshot = purchases[loads[k].address]]
    /\ UNCHANGED <<appVars, formVars, ledgerVars, account, clock, isLoading, error, rows, decryptingIndex,
                   decrypted, sessions, lastOutcome, started, requests, resolved>>

\* lines 70-97: every getPurchase has answered
LoadRows(k) ==
    /\ k \in 1 .. Len(loads)
    /\ loads[k].pc = "rows"
    /\ LET idx == indices(loads[k].purchaseCount)
           got == [i \in DOMAIN idx |-> getPurchase(loads[k].address, idx[i])]
           thrown == \E i \in DOMAIN idx : got[i].status # "ok"
       IN  /\ loads' = RemoveAt(loads, k)
           /\ IF loads[k].cancelled
              THEN UNCHANGED <<rows, error, isLoading>>
              ELSE /\ rows' = IF thrown THEN rows
                              ELSE [i \in DOMAIN idx |-> RecordRow(idx[i], got[i])]
                   /\ error' = IF thrown THEN "InvalidIndex" ELSE error
                   /\ isLoading' = FALSE
    /\ UNCHANGED <<appVars, formVars, ledgerVars, account, clock, count, decryptingIndex, decrypted,
                   sessions, lastOutcome, started, requests, resolved>>

\* Mutant: a load that fails sets the error and leaves the loading flag set.
LoadFailed_KeepsLoading(k) ==
    /\ k \in 1 .. Len(loads)
    /\ loads' = RemoveAt(loads, k)
    /\ IF loads[k].cancelled
       THEN UNCHANGED error
       ELSE error' = "Failed to load records"
    /\ UNCHANGED <<appVars, formVars, ledgerVars, account, clock, isLoading, count, rows,
                   decryptingIndex, decrypted, sessions, lastOutcome, started, requests,
                   resolved>>

\* lines 92-97: a read of the load was rejected (the RPC failed)
LoadFailed(k) ==
    /\ k \in 1 .. Len(loads)
    /\ loads' = RemoveAt(loads, k)
    /\ IF loads[k].cancelled
       THEN UNCHANGED <<error, isLoading>>
       ELSE /\ error' = "Failed to load records"
            /\ isLoading' = FALSE
    /\ UNCHANGED <<appVars, formVars, ledgerVars, account, clock, count, rows, decryptingIndex, decrypted,
                   sessions, lastOutcome, started, requests, resolved>>

\* lines 106-112 and 204-211: Decrypt is clicked on a row that is shown and
\* whose button is enabled
DecryptClickWithin(r, cap) ==
    /\ account # NoAccount
    /\ ~isLoading
    /\ r \in 1 .. Len(rows)
    /\ decryptingIndex # rows[r].index
    /\ Len(sessions) < cap
    /\ started < MaxStarted
    /\ started' = started + 1
    /\ decryptingIndex' = rows[r].index
    /\ sessions' = Append(sessions, [id |-> started + 1, row |-> rows[r], address |-> account,
                                     pc |-> "signer", start |-> 0])
    /\ UNCHANGED <<appVars, formVars, ledgerVars, account, clock, isLoading, error, count, rows, decrypted,
                   loads, lastOutcome, requests, resolved>>

\* lines 154-159: catch and finally
SessionThrows(k, status) ==
    /\ sessions' = RemoveAt(sessions, k)
    /\ decryptingIndex' = NoIndex
    /\ lastOutcome' = status
    /\ UNCHANGED <<decrypted, resolved>>

\* lines 114-128: the signer has answered; keypair, startTimeStamp, EIP-712 message
SessionSigner(k, available) ==
    /\ k \in 1 .. Len(sessions)
    /\ sessions[k].pc = "signer"
    /\ IF available
       THEN /\ sessions' = [sessions EXCEPT ![k].pc = "sign", ![k].start = clock]
            /\ UNCHANGED <<decryptingIndex, decrypted, lastOutcome, resolved>>
       ELSE SessionThrows(k, "aborted")
    /\ UNCHANGED <<appVars, formVars, ledgerVars, account, clock, isLoading, error, count, rows, loads,
                   started, requests>>

\* Mutant: the request is sent without waiting for the signature, so also
\* when signing throws.
SessionSigned_SendsUnsigned(k, signed) ==
    /\ k \in 1 .. Len(sessions)
    /\ sessions[k].pc = "sign"
    /\ requests' = Append(requests, Request(sessions[k]))
    /\ IF signed
       THEN /\ sessions' = [sessions EXCEPT ![k].pc = "submitted"]
            /\ UNCHANGED <<decryptingIndex, decrypted, lastOutcome, resolved>>
       ELSE SessionThrows(k, "aborted")
    /\ UNCHANGED <<appVars, formVars, ledgerVars, account, clock, isLoading, error, count, rows, loads, started>>

\* lines 129-144: signTypedData has answered; userDecrypt is called
SessionSigned(k, signed) ==
    /\ k \in 1 .. Len(sessions)
    /\ sessions[k].pc = "sign"
    /\ IF signed
       THEN /\ sessions' = [sessions EXCEPT ![k].pc = "submitted"]
            /\ requests' = Append(requests, Request(sessions[k]))
            /\ UNCHANGED <<decryptingIndex, decrypted, lastOutcome, resolved>>
       ELSE /\ SessionThrows(k, "aborted")
            /\ UNCHANGED requests
    /\ UNCHANGED <<appVars, formVars, ledgerVars, account, clock, isLoading, error, count, rows, loads, started>>

\* Mutant: a resolved request uses up the requester's grants on its handles.
SessionAnswered_ConsumesGrants(k) ==
    /\ k \in 1 .. Len(sessions)
    /\ sessions[k].pc = "submitted"
    /\ sessions' = RemoveAt(sessions, k)
    /\ decryptingIndex' = NoIndex
    /\ \E s \in {sessions[k]} :
       \E res \in {userDecrypt(handleContractPairs(s.row), publicKeyOf(s),
                               Sign(s.address, publicKeyOf(s), {This}, s.start, DurationDays),
                               {This}, s.address, s.start, DurationDays, clock)} :
            IF res.status = "ok"
            THEN /\ decrypted' = setDecrypted(decrypted, s.row, res.plaintext)
                 /\ lastOutcome' = "resolved"
                 /\ resolved' = resolved \cup { <<s.address, handleContractPairs(s.row)>> }
                 /\ acl' = acl \ (handleContractPairs(s.row) \X {s.address})
            ELSE /\ lastOutcome' = FailedToDecrypt(res)
                 /\ UNCHANGED <<decrypted, resolved, acl>>
    /\ UNCHANGED <<appVars, formVars, purchases, events, blockTime, lastCall, okCount, account, clock,
                   isLoading, error, count, rows, loads, started, requests>>

\* lines 135-159: userDecrypt has answered
SessionAnswered(k) ==
    /\ k \in 1 .. Len(sessions)
    /\ sessions[k].pc = "submitted"
    /\ \E s \in {sessions[k]} :
       \E res \in {userDecrypt(handleContractPairs(s.row), publicKeyOf(s),
                               Sign(s.address, publicKeyOf(s), {This}, s.start, DurationDays),
                               {This}, s.address, s.start, DurationDays, clock)} :
            IF res.status = "ok"
            THEN /\ decrypted' = setDecrypted(decrypted, s.row, res.plaintext)
                 /\ sessions' = RemoveAt(sessions, k)
                 /\ decryptingIndex' = NoIndex
                 /\ lastOutcome' = "resolved"
                 /\ resolved' = resolved \cup { <<s.address, handleContractPairs(s.row)>> }
            ELSE SessionThrows(k, FailedToDecrypt(res))
    /\ UNCHANGED <<appVars, formVars, ledgerVars, account, clock, isLoading, error, count, rows, loads,
                   started, requests>>

\* The Decrypt button of a row is clicked while no more than MaxSessions
\* decryptRow() calls are in flight
DecryptClick(r) == DecryptClickWithin(r, MaxSessions)

\* Time passes: as long as the window of an authorization lasts
Tick ==
    /\ clock + DurationDays <= MaxClock
    /\ clock' = clock + DurationDays
    /\ UNCHANGED <<appVars, formVars, ledgerVars, account, isLoading, error, count, rows, decryptingIndex,
                   decrypted, loads, sessions, lastOutcome, started, requests, resolved>>

\* The input the form encrypts for a submission: not the one of the
\* submission before (each submission encrypts anew)
FormInput(who) ==
    <<who, (Len(purchases[who]) % Cardinality({b \in Inputs : b[1] = who})) + 1>>

\* components/PurchaseForm.tsx, lines 70-89: the connected account encrypts
\* an input and appends it
Submit ==
    \E b \in {FormInput(account)} :
        AddPurchase(account, [text |-> "C", bytes |-> 1],
                    HandleOf(b, 1), HandleOf(b, 2), HandleOf(b, 3), b)

\* The Records view while one account stays connected
NextView ==
    \/ Submit
    \/ Refresh
    \/ \E k \in 1 .. MaxLoads : LoadCount(k)
    \/ \E k \in 1 .. MaxLoads : LoadRows(k)
    \/ \E k \in 1 .. MaxLoads : LoadFailed(k)
    \/ \E r \in 1 .. MaxPurchases : DecryptClick(r)
    \/ \E k \in 1 .. MaxSessions, available \in BOOLEAN : SessionSigner(k, available)
    \/ \E k \in 1 .. MaxSessions, signed \in BOOLEAN : SessionSigned(k, signed)
    \/ \E k \in 1 .. MaxSessions : SessionAnswered(k)
    \/ Tick

\* The contract as deployed, and the Records view mounted on it
InitRecords == InitLedger /\ InitView

SpecView == InitRecords /\ [][NextView]_vars

\* The Records view with Decrypt clicked on a row while the decryptRow() call
\* of another click is in flight
NextOverlap ==
    \/ Submit
    \/ \E k \in 1 .. MaxLoads : LoadCount(k)
    \/ \E k \in 1 .. MaxLoads : LoadRows(k)
    \/ \E r \in 1 .. MaxPurchases : DecryptClickWithin(r, MaxSessions + 1)
    \/ \E k \in 1 .. MaxSessions + 1, available \in BOOLEAN : SessionSigner(k, available)
    \/ \E k \in 1 .. MaxSessions + 1, signed \in BOOLEAN : SessionSigned(k, signed)
    \/ \E k \in 1 .. MaxSessions + 1 : SessionAnswered(k)

InitOverlap == InitLedger /\ InitView

SpecOverlap == InitOverlap /\ [][NextOverlap]_vars

\* The Records view when the wallet may also switch between accounts
NextAccounts ==
    \/ NextView
    \/ \E to \in Users : SwitchAccount(to)

InitAccounts == InitLedger /\ InitView

SpecAccounts == InitAccounts /\ [][NextAccounts]_vars

----------------------------------------------------------------------------
(* components/PurchaseForm.tsx: the texts of the fields and their parsing *)

\* A text is the tuple of its characters. The texts the model types hold
\* blanks, a sign, decimal digits, one or more dots and letters; they hold no
\* exponent, no radix prefix and no fraction beyond the precision of a double.
DigitChars == <<"0", "1", "2", "3", "4", "5", "6", "7", "8", "9">>

IsDigit(c) == \E i \in 1 .. 10 : DigitChars[i] = c

DigitValue(c) == (CHOOSE i \in 1 .. 10 : DigitChars[i] = c) - 1

\* A natural number is the tuple of its decimal digits, without leading zeros
StripZeros(ds) ==
    LET nz == { i \in 1 .. Len(ds) : ds[i] # 0 }
    IN  IF nz = {} THEN <<0>>
        ELSE SubSeq(ds, CHOOSE i \in nz : \A j \in nz : i <= j, Len(ds))

DigitsOf(chars) == StripZeros([i \in 1 .. Len(chars) |-> DigitValue(chars[i])])

\* a > b for two natural numbers
Greater(a, b) ==
    \/ Len(a) > Len(b)
    \/ /\ Len(a) = Len(b)
       /\ \E i \in 1 .. Len(a) :
             /\ a[i] > b[i]
             /\ \A j \in 1 .. i - 1 : a[j] = b[j]

\* String.prototype.trim, of blanks
trim(text) ==
    LET ns == { i \in 1 .. Len(text) : text[i] # " " }
    IN  IF ns = {} THEN <<>>
        ELSE SubSeq(text, CHOOSE i \in ns : \A j \in ns : i <= j,
                          CHOOSE i \in ns : \A j \in ns : j <= i)

\* Number(value), for texts without exponent, radix prefix or Infinity: the
\* empty text is 0; a sign, digits and at most one dot make a number;
\* anything else is NaN
Number(value) ==
    LET t == trim(value)
        signed == Len(t) > 0 /\ t[1] \in {"+", "-"}
        body == IF signed THEN Tail(t) ELSE t
        dots == { i \in 1 .. Len(body) : body[i] = "." }
        dot == IF dots = {} THEN Len(body) + 1 ELSE CHOOSE i \in dots : TRUE
        intChars == SubSeq(body, 1, dot - 1)
        fracChars == SubSeq(body, dot + 1, Len(body))
        wellFormed == /\ Cardinality(dots) <= 1
                      /\ \A i \in 1 .. Len(body) : i \notin dots => IsDigit(body[i])
                      /\ Len(intChars) + Len(fracChars) > 0
    IN  IF t = <<>> THEN [nan |-> FALSE, negative |-> FALSE, int |-> <<0>>, fraction |-> FALSE]
        ELSE IF ~wellFormed
        THEN [nan |-> TRUE, negative |-> FALSE, int |-> <<0>>, fraction |-> FALSE]
        ELSE [nan |-> FALSE, negative |-> signed /\ t[1] = "-", int |-> DigitsOf(intChars),
              fraction |-> \E i \in 1 .. Len(fracChars) : fracChars[i] # "0"]

\* What the parse functions return for null
Null == <<>>

\* Mutant: the upper bound of a uint32 is not checked.
parseUint32_NoUpperBound(value) ==
    LET n == Number(value)
    IN  IF n.nan \/ n.fraction \/ (n.negative /\ n.int # <<0>>) THEN Null ELSE n.int

\* lines 15-19
parseUint32(value) ==
    LET n == Number(value)
    IN  IF \/ n.nan \/ n.fraction
           \/ n.negative /\ n.int # <<0>>
           \/ Greater(n.int, UINT32_MAX)
        THEN Null
        ELSE n.int

\* BigInt(value), for texts without radix prefix: the empty text is 0n; a
\* sign and digits make an integer; anything else throws a SyntaxError
BigInt(value) ==
    LET t == trim(value)
        signed == Len(t) > 0 /\ t[1] \in {"+", "-"}
        body == IF signed THEN Tail(t) ELSE t
    IN  IF t = <<>> THEN [error |-> FALSE, negative |-> FALSE, int |-> <<0>>]
        ELSE IF Len(body) = 0 \/ \E i \in 1 .. Len(body) : ~IsDigit(body[i])
        THEN [error |-> TRUE, negative |-> FALSE, int |-> <<0>>]
        ELSE [error |-> FALSE, negative |-> signed /\ t[1] = "-", int |-> DigitsOf(body)]

\* lines 21-29
parseUint64(value) ==
    LET b == BigInt(value)
    IN  IF b.error THEN Null
        ELSE IF (b.negative /\ b.int # <<0>>) \/ Greater(b.int, UINT64_MAX) THEN Null
        ELSE b.int

\* The item field: its text, the blanks around it, and the length of the
\* text in UTF-16 units (String.length) and in UTF-8 bytes (bytes(item).length)
trimItem(it) == [it EXCEPT !.pad = 0]

\* lines 43-50
parsed(f) ==
    [userId |-> parseUint32(trim(f.userId)),
     quantity |-> parseUint32(trim(f.quantity)),
     amount |-> parseUint64(trim(f.amount)),
     item |-> trimItem(f.item)]

\* Mutant: a submission in flight does not disable the form.
canSubmit_WhileSubmitting(address, f, busy) ==
    /\ address # NoAccount
    /\ parsed(f).item.units > 0
    /\ parsed(f).item.units <= MaxItemLength
    /\ parsed(f).userId # Null
    /\ parsed(f).quantity # Null
    /\ parsed(f).amount # Null

\* lines 52-61; the encryption instance and the signer promise are there
canSubmit(address, f, busy) ==
    /\ address # NoAccount
    /\ ~busy
    /\ parsed(f).item.units > 0
    /\ parsed(f).item.units <= MaxItemLength
    /\ parsed(f).userId # Null
    /\ parsed(f).quantity # Null
    /\ parsed(f).amount # Null

\* The item as the contract receives it
ItemOf(it) == [text |-> it.text, bytes |-> it.bytes]

----------------------------------------------------------------------------
(* components/PurchaseApp.tsx with PurchaseForm and PurchaseRecords *)

sessionVars == <<clock, sessions, lastOutcome, started, requests, resolved>>

\* lines 322-334: what the app renders below the tabs
Shown(address, tab) == IF address = NoAccount THEN "none" ELSE tab

\* The cleanup of the effect: the load() calls in flight are cancelled
cleanup(ls) == [k \in 1 .. Len(ls) |-> [ls[k] EXCEPT !.cancelled = TRUE]]

\* The submit() calls of a form that unmounts go on; what they set in the
\* form is lost
detach(ss) == [k \in 1 .. Len(ss) |-> [ss[k] EXCEPT !.detached = TRUE]]

\* The app renders anew for the address and the tab given, keyChanged telling
\* whether refreshKey changed; ss and busy are the submit() calls and
\* isSubmitting as the step leaves them. A component that is no longer
\* rendered unmounts and loses its state; PurchaseRecords, when it mounts or
\* when address or refreshKey change, runs its effect.
Rerender(address, tab, keyChanged, after, ss, busy) ==
    LET was == Shown(account, activeTab)
        now == Shown(address, tab)
    IN  /\ account' = address
        /\ activeTab' = tab
        /\ IF now = "records" /\ (was # "records" \/ address # account \/ keyChanged)
           THEN /\ Len(loads) < MaxAppLoads
                /\ loads' = Append(cleanup(loads), load(address, after))
                /\ isLoading' = TRUE
                /\ error' = ""
                /\ IF was = "records"
                   THEN UNCHANGED <<count, rows, decryptingIndex, decrypted>>
                   ELSE /\ count' = 0
                        /\ rows' = <<>>
                        /\ decryptingIndex' = NoIndex
                        /\ decrypted' = <<>>
           ELSE IF now = "records"
           THEN UNCHANGED <<loads, isLoading, error, count, rows, decryptingIndex, decrypted>>
           ELSE /\ loads' = cleanup(loads)
                /\ isLoading' = FALSE
                /\ error' = ""
                /\ count' = 0
                /\ rows' = <<>>
                /\ decryptingIndex' = NoIndex
                /\ decrypted' = <<>>
        /\ IF was = "add" /\ now # "add"
           THEN /\ fields' = NoFields
                /\ isSubmitting' = FALSE
                /\ submits' = detach(ss)
           ELSE /\ fields' = fields
                /\ isSubmitting' = busy
                /\ submits' = ss

\* lines 285-292: the Refresh button
AppRefresh ==
    /\ account # NoAccount
    /\ refreshKey < MaxRefreshKey
    /\ refreshKey' = refreshKey + 1
    /\ Rerender(account, activeTab, TRUE, NoRecord, submits, isSubmitting)
    /\ UNCHANGED <<ledgerVars, sessionVars, lastSubmitted, succeeded>>

\* useAccount().address changes: the wallet connects, disconnects or switches
\* to another account
AccountChanged(to) ==
    /\ to # account
    /\ Rerender(to, activeTab, FALSE, NoRecord, submits, isSubmitting)
    /\ UNCHANGED <<ledgerVars, sessionVars, refreshKey, lastSubmitted, succeeded>>

\* lines 304-320: a tab is clicked
SelectTab(tab) ==
    /\ tab # activeTab
    /\ tab = "records" => account # NoAccount
    /\ Rerender(account, tab, FALSE, NoRecord, submits, isSubmitting)
    /\ UNCHANGED <<ledgerVars, sessionVars, refreshKey, lastSubmitted, succeeded>>

\* The fields of the form are typed
TypeFields(f) ==
    /\ Shown(account, activeTab) = "add"
    /\ f # fields
    /\ fields' = f
    /\ UNCHANGED <<ledgerVars, viewVars, appVars, isSubmitting, submits, lastSubmitted,
                   succeeded>>

\* lines 63-73: the form is submitted; add32, add32 and add64 are called with
\* the parsed values
SubmitClick ==
    /\ Shown(account, activeTab) = "add"
    /\ canSubmit(account, fields, isSubmitting)
    /\ Len(submits) < MaxSubmits
    /\ isSubmitting' = TRUE
    /\ submits' = Append(submits, [address |-> account, pc |-> "encrypt", detached |-> FALSE,
                                   values |-> parsed(fields), index |-> NoIndex])
    /\ UNCHANGED <<ledgerVars, viewVars, appVars, fields, lastSubmitted, succeeded>>

\* lines 91-96: catch and finally
SubmitThrows(k, why) ==
    /\ submits' = RemoveAt(submits, k)
    /\ isSubmitting' = IF submits[k].detached THEN isSubmitting ELSE FALSE
    /\ lastSubmitted' = why
    /\ UNCHANGED <<viewVars, appVars, fields, succeeded>>

\* line 74: input.encrypt() has answered
SubmitEncrypted(k, encrypted) ==
    /\ k \in 1 .. Len(submits)
    /\ submits[k].pc = "encrypt"
    /\ IF encrypted
       THEN /\ submits' = [submits EXCEPT ![k].pc = "signer"]
            /\ UNCHANGED <<viewVars, appVars, fields, isSubmitting, lastSubmitted, succeeded>>
       ELSE SubmitThrows(k, "encryption failed")
    /\ UNCHANGED ledgerVars

\* lines 76-77: the signer has answered
SubmitSigner(k, available) ==
    /\ k \in 1 .. Len(submits)
    /\ submits[k].pc = "signer"
    /\ IF available
       THEN /\ submits' = [submits EXCEPT ![k].pc = "send"]
            /\ UNCHANGED <<viewVars, appVars, fields, isSubmitting, lastSubmitted, succeeded>>
       ELSE SubmitThrows(k, "no signer")
    /\ UNCHANGED ledgerVars

\* lines 79-88: the wallet has sent the transaction, or has refused to
SubmitSent(k, sent) ==
    /\ k \in 1 .. Len(submits)
    /\ submits[k].pc = "send"
    /\ IF sent
       THEN /\ submits' = [submits EXCEPT ![k].pc = "wait"]
            /\ UNCHANGED <<viewVars, appVars, fields, isSubmitting, lastSubmitted, succeeded>>
       ELSE SubmitThrows(k, "send failed")
    /\ UNCHANGED ledgerVars

\* The transaction of a submission is executed, in the name of the account
\* that submitted, with the input the form encrypted
TxMined(k) ==
    /\ k \in 1 .. Len(submits)
    /\ submits[k].pc = "wait"
    /\ \E b \in {FormInput(submits[k].address)} :
          Transact(submits[k].address, ItemOf(submits[k].values.item),
                   HandleOf(b, 1), HandleOf(b, 2), HandleOf(b, 3), b)
    /\ submits' = [submits EXCEPT
                     ![k].pc = IF lastCall'.status = "ok" THEN "mined" ELSE "reverted",
                     ![k].index = IF lastCall'.status = "ok" THEN lastCall'.n ELSE NoIndex]
    /\ UNCHANGED <<viewVars, appVars, fields, isSubmitting, lastSubmitted, succeeded>>

\* Mutant: onSuccess is called in the finally clause, on every path.
SubmitWaited_AlwaysOnSuccess(k, confirmed) ==
    /\ k \in 1 .. Len(submits)
    /\ submits[k].pc \in {"wait", "mined", "reverted"}
    /\ confirmed <=> submits[k].pc = "mined"
    /\ succeeded' = succeeded + 1
    /\ lastSubmitted' = IF confirmed THEN "success" ELSE "confirmation failed"
    /\ refreshKey' = refreshKey + 1
    /\ Rerender(account, "records", TRUE, <<submits[k].address, submits[k].index>>,
                RemoveAt(submits, k),
                IF submits[k].detached THEN isSubmitting ELSE FALSE)
    /\ UNCHANGED <<ledgerVars, sessionVars>>

\* lines 89-96: tx.wait() has answered; when it confirms, onSuccess() runs
\* (part_004:261-264: the Records tab is selected and refreshKey incremented)
SubmitWaited(k, confirmed) ==
    /\ k \in 1 .. Len(submits)
    /\ submits[k].pc \in {"wait", "mined", "reverted"}
    /\ confirmed => submits[k].pc = "mined"
    /\ IF confirmed
       THEN /\ succeeded' = succeeded + 1
            /\ lastSubmitted' = "success"
            /\ refreshKey' = refreshKey + 1
            /\ Rerender(account, "records", TRUE, <<submits[k].address, submits[k].index>>,
                        RemoveAt(submits, k),
                        IF submits[k].detached THEN isSubmitting ELSE FALSE)
            /\ UNCHANGED sessionVars
       ELSE SubmitThrows(k, "confirmation failed")
    /\ UNCHANGED ledgerVars

\* What is typed into the form of the app
Coffee ==
    [userId |-> <<"1", "0", "0", "1">>,
     item |-> [text |-> "Coffee", pad |-> 0, units |-> 6, bytes |-> 6],
     quantity |-> <<"2">>,
     amount |-> <<"7", "0", "0">>]

\* Texts typed into the User ID field: "", "0", "1001", " 2 ", "+7", "-0", "2.0",
\* "4294967295", "4294967296", "-1", "1.5", "abc"
UserIdTexts ==
    { <<>>,
      <<"0">>,
      <<"1", "0", "0", "1">>,
      <<" ", "2", " ">>,
      <<"+", "7">>,
      <<"-", "0">>,
      <<"2", ".", "0">>,
      <<"4", "2", "9", "4", "9", "6", "7", "2", "9", "5">>,
      <<"4", "2", "9", "4", "9", "6", "7", "2", "9", "6">>,
      <<"-", "1">>,
      <<"1", ".", "5">>,
      <<"a", "b", "c">> }

\* Texts typed into the Quantity field
QuantityTexts ==
    { <<>>,
      <<"2">>,
      <<"4", "2", "9", "4", "9", "6", "7", "2", "9", "6">>,
      <<"-", "1">> }

\* Texts typed into the Amount field: "", "700", " 7 ", "18446744073709551615",
\* "18446744073709551616", "-1", "1.5", "2.0", "abc"
AmountTexts ==
    { <<>>,
      <<"7", "0", "0">>,
      <<" ", "7", " ">>,
      <<"1", "8", "4", "4", "6", "7", "4", "4", "0", "7", "3", "7", "0", "9", "5", "5", "1", "6", "1", "5">>,
      <<"1", "8", "4", "4", "6", "7", "4", "4", "0", "7", "3", "7", "0", "9", "5", "5", "1", "6", "1", "6">>,
      <<"-", "1">>,
      <<"1", ".", "5">>,
      <<"2", ".", "0">>,
      <<"a", "b", "c">> }

\* Texts typed into the Item field: nothing, blanks, a short text with and
\* without blanks around it, 64 and 65 one-byte characters, 32 and 64
\* two-byte characters
ItemTexts ==
    { [text |-> "", pad |-> 0, units |-> 0, bytes |-> 0],
      [text |-> "", pad |-> 3, units |-> 0, bytes |-> 0],
      [text |-> "Coffee", pad |-> 0, units |-> 6, bytes |-> 6],
      [text |-> "Coffee", pad |-> 2, units |-> 6, bytes |-> 6],
      [text |-> "x64", pad |-> 0, units |-> 64, bytes |-> 64],
      [text |-> "x65", pad |-> 0, units |-> 65, bytes |-> 65],
      [text |-> "e32", pad |-> 0, units |-> 32, bytes |-> 64],
      [text |-> "e64", pad |-> 0, units |-> 64, bytes |-> 128] }

\* The form filled in, one field at a time differing from Coffee
Fillings ==
    { [Coffee EXCEPT !.userId = t] : t \in UserIdTexts }
    \cup { [Coffee EXCEPT !.quantity = t] : t \in QuantityTexts }
    \cup { [Coffee EXCEPT !.amount = t] : t \in AmountTexts }
    \cup { [Coffee EXCEPT !.item = t] : t \in ItemTexts }

\* A transaction of addPurchase sent for who, from this client or another,
\* is executed
SubmitBy(who) ==
    \E b \in {FormInput(who)} :
        AddPurchase(who, ItemOf(Coffee.item), HandleOf(b, 1), HandleOf(b, 2), HandleOf(b, 3), b)

\* The app and its Records view: the wallet, the tabs, the Refresh button
\* and the loads, while records are appended
NextApp ==
    \/ AppRefresh
    \/ \E to \in Users \cup {NoAccount} : AccountChanged(to)
    \/ \E tab \in {"add", "records"} : SelectTab(tab)
    \/ \E who \in Users : SubmitBy(who)
    \/ \E k \in 1 .. MaxAppLoads : LoadCount(k)
    \/ \E k \in 1 .. MaxAppLoads : LoadRows(k)
    \/ \E k \in 1 .. MaxAppLoads : LoadFailed(k)

\* The contract as deployed and the app as opened, no wallet connected
InitApp == InitLedger /\ InitNoView

\* The form is mounted for a connected account
InitFormView ==
    /\ account = "alice"
    /\ clock = 0
    /\ isLoading = FALSE
    /\ error = ""
    /\ count = 0
    /\ rows = <<>>
    /\ decryptingIndex = NoIndex
    /\ decrypted = <<>>
    /\ loads = <<>>
    /\ sessions = <<>>
    /\ lastOutcome = NoOutcome
    /\ started = 0
    /\ requests = <<>>
    /\ resolved = {}
    /\ activeTab = "add"
    /\ refreshKey = 0
    /\ fields = NoFields
    /\ isSubmitting = FALSE
    /\ submits = <<>>
    /\ lastSubmitted = NoOutcome
    /\ succeeded = 0

\* The form of one account: it is filled in and submitted, it unmounts when
\* the wallet disconnects or a submission succeeds and mounts again when the
\* wallet reconnects or the Add Purchase tab is selected, while submissions
\* are in flight
NextForm ==
    \/ \E to \in {NoAccount, "alice"} : (activeTab = "add" /\ AccountChanged(to))
    \/ (loads = <<>> /\ SelectTab("add"))
    \/ TypeFields(Coffee)
    \/ SubmitClick
    \/ \E k \in 1 .. MaxSubmits, encrypted \in BOOLEAN : SubmitEncrypted(k, encrypted)
    \/ \E k \in 1 .. MaxSubmits, available \in BOOLEAN : SubmitSigner(k, available)
    \/ \E k \in 1 .. MaxSubmits, sent \in BOOLEAN : SubmitSent(k, sent)
    \/ \E k \in 1 .. MaxSubmits : TxMined(k)
    \/ \E k \in 1 .. MaxSubmits, confirmed \in BOOLEAN : SubmitWaited(k, confirmed)
    \/ \E k \in 1 .. MaxAppLoads : LoadFailed(k)

InitForm == InitLedger /\ InitFormView

SpecForm == InitForm /\ [][NextForm]_vars

\* One submission at a time while the wallet may
\* connect, disconnect and switch accounts as long as the form is shown; the
\* Records view that a confirmed submission opens loads its rows
NextSubmit ==
    \/ \E to \in Users \cup {NoAccount} : (activeTab = "add" /\ AccountChanged(to))
    \/ (loads = <<>> /\ SelectTab("add"))
    \/ TypeFields(Coffee)
    \/ (submits = <<>> /\ SubmitClick)
    \/ \E k \in 1 .. MaxSubmits, encrypted \in BOOLEAN : SubmitEncrypted(k, encrypted)
    \/ \E k \in 1 .. MaxSubmits, available \in BOOLEAN : SubmitSigner(k, available)
    \/ \E k \in 1 .. MaxSubmits, sent \in BOOLEAN : SubmitSent(k, sent)
    \/ \E k \in 1 .. MaxSubmits : TxMined(k)
    \/ \E k \in 1 .. MaxSubmits, confirmed \in BOOLEAN : SubmitWaited(k, confirmed)
    \/ \E k \in 1 .. MaxAppLoads : LoadCount(k)
    \/ \E k \in 1 .. MaxAppLoads : LoadRows(k)

InitSubmit == InitLedger /\ InitFormView

SpecSubmit == InitSubmit /\ [][NextSubmit]_vars

\* Whatever is typed is submitted by one account, one submission at a time
\* and nothing typed meanwhile, until a submission succeeds and the Records
\* view replaces the form
NextParse ==
    \/ \E f \in Fillings : (submits = <<>> /\ TypeFields(f))
    \/ (submits = <<>> /\ SubmitClick)
    \/ \E k \in 1 .. MaxSubmits, encrypted \in BOOLEAN : SubmitEncrypted(k, encrypted)
    \/ \E k \in 1 .. MaxSubmits, available \in BOOLEAN : SubmitSigner(k, available)
    \/ \E k \in 1 .. MaxSubmits, sent \in BOOLEAN : SubmitSent(k, sent)
    \/ \E k \in 1 .. MaxSubmits : TxMined(k)
    \/ \E k \in 1 .. MaxSubmits, confirmed \in BOOLEAN : SubmitWaited(k, confirmed)

InitParse == InitLedger /\ InitFormView

SpecParse == InitParse /\ [][NextParse]_vars

SpecApp == InitApp /\ [][NextApp]_vars

----------------------------------------------------------------------------
(* Properties of the store *)

RecordHandles(p) == {p.userId, p.quantity, p.amount}

Records == { <<m, i>> \in Users \X (1 .. MaxPurchases) : i <= Len(purchases[m]) }

IndicesOf(m) ==
    LET mine == SelectSeq(events, LAMBDA e : e.merchant = m)
    IN  [k \in 1 .. Len(mine) |-> mine[k].index]

IsFailedAdd(call) == call.op = "addPurchase" /\ call.status # "ok"

\* C1: between calls the write is all-or-nothing: every stored record has its
\* three handles granted to the store and to the record's owner, and every
\* granted handle belongs to a stored record.
C1_WriteAllOrNothing ==
    /\ \A r \in Records : \A h \in RecordHandles(purchases[r[1]][r[2]]) :
          isGranted(h, This) /\ isGranted(h, r[1])
    /\ \A g \in acl : \E r \in Records : g[1] \in RecordHandles(purchases[r[1]][r[2]])

\* Both merchants hold a record and the last call failed at its third
\* fromExternal, after two had succeeded.
C1_Witness ==
    /\ Len(purchases["alice"]) >= 1 /\ Len(purchases["bob"]) >= 1
    /\ lastCall = [op |-> "addPurchase", status |-> "InvalidProof", n |-> 3]

GrantedOn(h) == { g[2] : g \in { x \in acl : x[1] = h } }

\* C2: the principals granted on a handle of a stored record are exactly the
\* store and the record's owner, and no step removes a grant.
C2_GrantsExactlyStoreAndOwner ==
    /\ [](\A r \in Records : \A h \in RecordHandles(purchases[r[1]][r[2]]) :
            GrantedOn(h) = {This, r[1]})
    /\ [][acl \subseteq acl']_vars

C2_Witness ==
    /\ Len(purchases["alice"]) = 1 /\ Len(purchases["bob"]) = 1
    /\ lastCall.op = "addPurchase" /\ lastCall.status = "ok"

\* C3: for distinct principals A and B, no decryption of a handle of a record
\* of A resolves under an authorization signed by B, whoever B names as the
\* requesting principal; the decrypt task run by B on a record of A is denied.
C3_NoForeignDecryption ==
    \A A \in Users : \A B \in Users \ {A} : \A i \in 0 .. MaxPurchases :
        getPurchase(A, i).status = "ok" =>
            /\ decryptPurchase(B, A, i).status = "denied"
            /\ \A hs \in (SUBSET RecordHandles(purchases[A][i + 1])) \ {{}} :
               \A claimed \in Users :
                  userDecrypt(hs, <<B, 1>>, Sign(B, <<B, 1>>, {This}, 0, DurationDays),
                              {This}, claimed, 0, DurationDays, 0).status = "denied"

\* B ran the decrypt task on the only record there is, a record of A.
C3_Witness ==
    /\ TotalPurchases = 1
    /\ lastCall = [op |-> "decrypt-purchase", status |-> "denied", n |-> 0]

\* C4: the k-th successful addPurchase of a merchant gets index k-1: the
\* indices of the merchant's events are 0, 1, ..., N-1 in this order, N being
\* the number of its successful appends, whatever the other merchants append.
C4_DenseIndices ==
    \A m \in Users :
        /\ DOMAIN IndicesOf(m) = 1 .. okCount[m]
        /\ \A k \in 1 .. okCount[m] : IndicesOf(m)[k] = k - 1

\* A merchant's first append, made after another merchant's, got index 0.
C4_Witness ==
    /\ Len(events) = 2
    /\ events[1].merchant # events[2].merchant
    /\ lastCall = [op |-> "addPurchase", status |-> "ok", n |-> 0]

HighestValidIndex(o) ==
    LET valid == { i \in 0 .. MaxPurchases + 1 : getPurchase(o, i).status = "ok" }
    IN  IF valid = {} THEN -1 ELSE CHOOSE i \in valid : \A j \in valid : j <= i

\* C5: getPurchaseCount(o) is the number of successful addPurchase calls of o
\* (0 for one that never appended) and one plus the highest index at which
\* getPurchase(o, .) succeeds.
C5_CountIsNumberOfAppends ==
    \A o \in Users :
        /\ getPurchaseCount(o) = okCount[o]
        /\ getPurchaseCount(o) = HighestValidIndex(o) + 1

C5_Witness ==
    /\ lastCall = [op |-> "getPurchaseCount", status |-> "ok", n |-> 2]
    /\ \E o \in Users : okCount[o] = 0

\* C6: a record that getPurchase(o, i) returns is returned unchanged in every
\* later state, and getPurchaseCount(o) never decreases.
C6_AppendOnly ==
    [][\A o \in Users :
          /\ getPurchaseCount(o)' >= getPurchaseCount(o)
          /\ \A i \in 0 .. MaxPurchases :
                getPurchase(o, i).status = "ok" => getPurchase(o, i)' = getPurchase(o, i)]_vars

\* A second, different record was appended behind a merchant's first one.
C6_Witness ==
    \E o \in Users :
        /\ Len(purchases[o]) = 2
        /\ purchases[o][1] # purchases[o][2]

BadLength(item) == item.bytes = 0 \/ item.bytes > 64

\* C7: addPurchase with an item of 0 or more than 64 bytes always fails with
\* InvalidItem, and the failed call leaves the records, the grants and the
\* events as they were.
C7_InvalidItemChangesNothing ==
    /\ [](\A sender \in Users, item \in Items, b \in Inputs, shape \in Shapes :
            BadLength(item) =>
              LET s == Submission(b, shape)
                  r == addPurchase(sender, item, s[1], s[2], s[3], s[4])
              IN  /\ r.status = "InvalidItem"
                  /\ r.purchases = purchases /\ r.acl = acl /\ r.events = events)
    /\ [][(lastCall'.op = "addPurchase" /\ lastCall'.status = "InvalidItem")
            => UNCHANGED <<purchases, acl, events, okCount>>]_vars

C7_Witness ==
    /\ TotalPurchases >= 1
    /\ lastCall = [op |-> "addPurchase", status |-> "InvalidItem", n |-> 0]

\* What the Encryption Scheme says of a submission: the first of the three
\* inputs it rejects, 0 when it accepts them all
FirstRejected(sender, u, q, a, proof) ==
    IF ~FHE_verify(u, proof, 32, sender) THEN 1
    ELSE IF ~FHE_verify(q, proof, 32, sender) THEN 2
    ELSE IF ~FHE_verify(a, proof, 64, sender) THEN 3
    ELSE 0

\* C8: when the Encryption Scheme rejects one of the three inputs of a call
\* whose item is valid, addPurchase fails with the Scheme's error at that
\* input (the earlier ones having passed, none tried again), and nothing is
\* appended, granted or emitted.
C8_InvalidProofChangesNothing ==
    /\ [](\A sender \in Users, item \in Items, b \in Inputs, shape \in Shapes :
            LET s == Submission(b, shape)
                k == FirstRejected(sender, s[1], s[2], s[3], s[4])
                r == addPurchase(sender, item, s[1], s[2], s[3], s[4])
            IN  (~BadLength(item) /\ k # 0) =>
                  /\ r.status = "InvalidProof" /\ r.fromExternalCalls = k
                  /\ r.purchases = purchases /\ r.acl = acl /\ r.events = events)
    /\ [][(lastCall'.op = "addPurchase" /\ lastCall'.status = "InvalidProof")
            => UNCHANGED <<purchases, acl, events, okCount>>]_vars

\* The second fromExternal failed after the first had succeeded.
C8_Witness ==
    /\ TotalPurchases >= 1
    /\ lastCall = [op |-> "addPurchase", status |-> "InvalidProof", n |-> 2]

\* C9: getPurchase(owner, index) fails with InvalidIndex exactly when
\* index >= getPurchaseCount(owner) and succeeds below it; the call changes
\* no state.
C9_InvalidIndex ==
    /\ [](\A o \in Users : \A i \in 0 .. MaxPurchases + 1 :
            getPurchase(o, i).status =
                IF i >= getPurchaseCount(o) THEN "InvalidIndex" ELSE "ok")
    /\ [][lastCall'.op = "getPurchase"
            => UNCHANGED <<purchases, acl, events, okCount>>]_vars

\* getPurchase on a merchant with zero records
C9_Witness ==
    /\ TotalPurchases = 0
    /\ lastCall = [op |-> "getPurchase", status |-> "InvalidIndex", n |-> 0]

----------------------------------------------------------------------------
(* Properties of the Records view *)

\* The row of plaintexts a resolved batch gives for a record row
FullyDecrypted(row) ==
    [userId |-> ToString(Plain(row.userIdHandle)),
     quantity |-> ToString(Plain(row.quantityHandle)),
     amount |-> ToString(Plain(row.amountHandle))]

\* What the relayer answers to the request of a session at the present time
AnswerTo(s) ==
    userDecrypt({s.row.userIdHandle, s.row.quantityHandle, s.row.amountHandle},
                publicKeyOf(s),
                Sign(s.address, publicKeyOf(s), {This}, s.start, DurationDays),
                {This}, s.address, s.start, DurationDays, clock)

\* C10: a decryption session over the three handles of a row ends with the
\* plaintext of all three recorded for the row or with nothing recorded: no
\* recorded row lacks a field, a session that is rejected or aborted records
\* nothing, and what is recorded is recorded by a session whose whole batch
\* the relayer resolved.
C10_BatchAllOrNothing ==
    /\ [](\A k \in DOMAIN decrypted :
            decrypted[k].userId # "" /\ decrypted[k].quantity # "" /\ decrypted[k].amount # "")
    /\ [][(Len(sessions') < Len(sessions) /\ lastOutcome' \in {"rejected", "aborted"})
            => decrypted' = decrypted]_vars
    /\ [][decrypted' # decrypted =>
            \E k \in 1 .. Len(sessions) :
                /\ sessions[k].pc = "submitted"
                /\ AnswerTo(sessions[k]).status = "ok"
                /\ DOMAIN decrypted' = DOMAIN decrypted \cup {sessions[k].row.index}
                /\ decrypted'[sessions[k].row.index] = FullyDecrypted(sessions[k].row)
                /\ \A j \in DOMAIN decrypted \ {sessions[k].row.index} :
                      decrypted'[j] = decrypted[j]]_vars

\* A session over a row was rejected (its window had elapsed) and nothing is
\* recorded for any row.
C10_Witness ==
    /\ lastOutcome = "rejected"
    /\ Len(rows) >= 1
    /\ decrypted = <<>>
    /\ clock >= DurationDays

\* The session that ends in a step: the one taken out of the sessions in flight
Ended(k) ==
    /\ k \in 1 .. Len(sessions)
    /\ sessions' = RemoveAt(sessions, k)

\* Offsets from the start of a window, around its two ends
WindowOffsets == {-1, 0, 1, DurationDays - 1, DurationDays, DurationDays + 1}

\* The request is one the relayer denies for no reason but the time: its
\* signature is the requester's over the request's own key, contracts and
\* window, and every handle of its batch is granted to the requester
ValidButForTime(q) ==
    /\ q.signature = Sign(q.userAddress, q.publicKey, q.contracts, q.start, q.duration)
    /\ \A h \in q.handles : isGranted(h, q.userAddress)

\* C11: a request that reaches the relayer outside [start, start + duration)
\* is rejected although its signature is authentic and every handle of
\* its batch is granted to the requester, and no session of the Records view
\* resolves once its window has elapsed.
C11_ExpiredWindowRejected ==
    /\ [](\A n \in 1 .. Len(requests) : \A d \in WindowOffsets :
            LET q == requests[n]
                res == userDecrypt(q.handles, q.publicKey, q.signature, q.contracts,
                                   q.userAddress, q.start, q.duration, q.start + d)
            IN  ValidButForTime(q) =>
                  (res.status = "ok" <=> (0 <= d /\ d < q.duration)))
    /\ [][\A k \in 1 .. Len(sessions) :
            (Ended(k) /\ sessions[k].pc = "submitted" /\ ValidButForTime(Request(sessions[k])))
            => (lastOutcome' = "resolved" <=>
                  (sessions[k].start <= clock /\ clock < sessions[k].start + DurationDays))]_vars

\* A row was resolved within the window of its session; a later session,
\* signed by the same owner over granted handles, was answered after its
\* window had elapsed and was rejected.
C11_Witness ==
    /\ lastOutcome = "rejected"
    /\ decrypted # <<>>
    /\ clock >= DurationDays
    /\ \A r \in 1 .. Len(rows) :
          \A h \in handleContractPairs(rows[r]) : isGranted(h, account)

\* What a valid authorization of o over the three handles that
\* getPurchase(o, i) returns resolves to: <<userId, quantity, amount>>, each
\* read at the handle of its own field; <<>> when the read or the decryption
\* fails
DecryptedBy(o, i) ==
    LET p == getPurchase(o, i)
        key == <<"key", o, i, 0>>
    IN  IF p.status # "ok" THEN <<>>
        ELSE LET res == userDecrypt({p.userId, p.quantity, p.amount}, key,
                                    Sign(o, key, {This}, 0, DurationDays),
                                    {This}, o, 0, DurationDays, 0)
             IN  IF res.status # "ok" THEN <<>>
                 ELSE <<res.plaintext[p.userId], res.plaintext[p.quantity],
                        res.plaintext[p.amount]>>

\* The record is made of the three handles of the input b, each in the
\* field it was encrypted for
StoresInput(p, b) ==
    /\ p.userId = HandleOf(b, 1)
    /\ p.quantity = HandleOf(b, 2)
    /\ p.amount = HandleOf(b, 3)

\* C12: round trip. When an owner appends the three handles and the proof of
\* an input it encrypted, with a valid item, the record stored at the index
\* of the call holds them field by field; and for every record so stored, a
\* valid authorization of its owner over the three handles getPurchase
\* returns resolves to the raw <<userId, quantity, amount>> of the input,
\* and the decrypt task of the owner resolves all three.
C12_RoundTrip ==
    /\ \A o \in Users, item \in Items, b \in Inputs :
          LET r == addPurchase(o, item, HandleOf(b, 1), HandleOf(b, 2), HandleOf(b, 3), b)
          IN  r.status = "ok" =>
                /\ r.index = Len(purchases[o])
                /\ StoresInput(r.purchases[o][r.index + 1], b)
                /\ r.purchases[o][r.index + 1].item = item
    /\ \A r \in Records : \A b \in Inputs :
          StoresInput(purchases[r[1]][r[2]], b) =>
            /\ DecryptedBy(r[1], r[2] - 1) = ClearOf(b)
            /\ decryptPurchase(r[1], r[1], r[2] - 1) = [status |-> "ok", n |-> 3]

\* alice appended the input whose raw values are (1001, 2, 700) and then ran
\* the decrypt task on it.
C12_Witness ==
    /\ Len(purchases["alice"]) >= 1
    /\ StoresInput(purchases["alice"][1], <<"alice", 1>>)
    /\ ClearOf(<<"alice", 1>>) = <<1001, 2, 700>>
    /\ DecryptedBy("alice", 0) = <<1001, 2, 700>>
    /\ lastCall = [op |-> "decrypt-purchase", status |-> "ok", n |-> 3]

\* Record counts and caps the listing is computed for
ListCounts == {0, 1, 2, 3, MAX_TO_LOAD - 1, MAX_TO_LOAD, MAX_TO_LOAD + 1}

ListCaps == {2, MAX_TO_LOAD}

Min(a, b) == IF a < b THEN a ELSE b

\* The listing as a function of the count and the cap
ListingLaw ==
    \A c \in ListCounts, cap \in ListCaps :
        /\ Len(indicesAt(c, cap)) = Min(c, cap)
        /\ \A i \in 1 .. Min(c, cap) : indicesAt(c, cap)[i] = c - i
        /\ cap = MAX_TO_LOAD => indices(c) = indicesAt(c, cap)

\* C13: the listing for an owner with c records has min(c, cap) entries, the
\* indices c-1, c-2, ..., c-min(c, cap) in this order (an empty listing, and
\* no getPurchase call, for c = 0); the Records view lists with cap = 200,
\* and a load that completes shows the record of each of these indices.
C13_ListingMostRecentFirst ==
    /\ []ListingLaw
    /\ [](indicesAt(3, 2) = <<2, 1>> /\ indices(0) = <<>>)
    /\ [][\A k \in 1 .. Len(loads) :
            (/\ loads[k].pc = "rows" /\ ~loads[k].cancelled
             /\ loads' = RemoveAt(loads, k) /\ error' = "")
            => LET c == loads[k].purchaseCount
                   n == Min(c, MAX_TO_LOAD)
               IN  /\ Len(rows') = n
                   /\ \A i \in 1 .. n :
                        rows'[i] = RecordRow(c - i, getPurchase(loads[k].address, c - i))]_vars

\* A load of an owner with two records has listed index 1, then index 0.
C13_Witness ==
    /\ ~isLoading /\ loads = <<>> /\ error = ""
    /\ count = 2
    /\ Len(rows) = 2 /\ rows[1].index = 1 /\ rows[2].index = 0

\* The events of an owner, in the order they were emitted
EventsOf(o) == SelectSeq(events, LAMBDA e : e.merchant = o)

\* C14: a successful addPurchase emits one PurchaseAdded whose merchant is
\* the caller, whose index is the index the new record is stored at and
\* whose item and timestamp are those stored in the record; a failed one
\* emits none, so an owner has as many events as getPurchaseCount says.
C14_OneEventPerAppend ==
    /\ [](\A o \in Users :
            /\ Len(EventsOf(o)) = getPurchaseCount(o)
            /\ \A k \in 1 .. Len(EventsOf(o)) :
                 LET e == EventsOf(o)[k]
                     p == getPurchase(o, e.index)
                 IN  /\ e.index = k - 1
                     /\ p.status = "ok" /\ p.item = e.item /\ p.timestamp = e.timestamp)
    /\ [][\A o \in Users :
            okCount'[o] # okCount[o] =>
               /\ Len(events') = Len(events) + 1
               /\ SubSeq(events', 1, Len(events)) = events
               /\ events'[Len(events')].merchant = o
               /\ events'[Len(events')].index = lastCall'.n
               /\ getPurchaseCount(o)' = getPurchaseCount(o) + 1]_vars
    /\ [][okCount' = okCount => events' = events]_vars

\* Two appends of one owner emitted the events of index 0 and 1, and the
\* failed call after them emitted none.
C14_Witness ==
    /\ Len(events) = 2
    /\ events[1].merchant = events[2].merchant
    /\ events[2].index = 1
    /\ IsFailedAdd(lastCall)

\* C15: grant is idempotent. Granting a pair that is granted never fails,
\* leaves it granted and leaves the grant relation as it was after the first
\* grant; so the grants addPurchase makes for a record whose handles the
\* caller already stored change nothing.
C15_GrantIdempotent ==
    /\ [](\A h \in Handles, who \in Principals :
            LET once == FHE_allow(acl, h, who)
                twice == FHE_allow(once, h, who)
            IN  /\ <<h, who>> \in once
                /\ twice = once
                /\ once = acl \cup { <<h, who>> }
                /\ isGranted(h, who) => once = acl)
    /\ [](\A r \in Records :
            grantAccess(acl, purchases[r[1]][r[2]], r[1]) = acl)
    /\ [][\A o \in Users :
            (/\ okCount'[o] # okCount[o]
             /\ \A h \in RecordHandles(purchases'[o][Len(purchases'[o])]) :
                   isGranted(h, o) /\ isGranted(h, This))
            => acl' = acl]_vars

\* An owner appended the same three handles a second time: each grant of
\* the second call was of a pair already granted.
C15_Witness ==
    \E o \in Users :
        /\ Len(purchases[o]) = 2
        /\ RecordHandles(purchases[o][1]) = RecordHandles(purchases[o][2])
        /\ lastCall = [op |-> "addPurchase", status |-> "ok", n |-> 1]
        /\ Cardinality(acl) = 6

\* A step of the listing (its reads of the contract) or of a decryption
\* session, whatever its outcome
ReadOrSessionStep ==
    \/ loads' # loads
    \/ rows' # rows
    \/ count' # count
    \/ sessions' # sessions
    \/ requests' # requests
    \/ decrypted' # decrypted
    \/ lastOutcome' # lastOutcome

\* C16: no read of the contract by the listing and no step of a decryption
\* session, whether it resolves, is rejected or is aborted, changes the
\* records of an owner, a record count or a grant.
C16_ReadsAndSessionsChangeNothing ==
    /\ [][ReadOrSessionStep =>
            /\ UNCHANGED <<purchases, acl, events, okCount>>
            /\ \A o \in Users : getPurchaseCount(o)' = getPurchaseCount(o)]_vars
    /\ [][\A k \in 1 .. Len(sessions) :
            (Ended(k) /\ lastOutcome' \in {"resolved", "rejected", "aborted"})
            => UNCHANGED <<purchases, acl>>]_vars

\* Two records were listed, a session over one of them resolved, the next
\* session was aborted, and the owner and the store still hold every grant.
C16_Witness ==
    /\ Len(rows) = 2
    /\ resolved # {}
    /\ lastOutcome = "aborted"
    /\ \A r \in 1 .. Len(rows) : \A h \in handleContractPairs(rows[r]) :
          isGranted(h, account) /\ isGranted(h, This)

\* The row is displayed with plaintext: the view renders its rows and has a
\* DecryptedRow under the index of the row (lines 192-226)
ShowsPlaintext(r) ==
    /\ account # NoAccount
    /\ ~isLoading
    /\ r \in 1 .. Len(rows)
    /\ rows[r].index \in DOMAIN decrypted

\* C17: the Records view shows ciphertext handles until Decrypt is clicked:
\* in every state, also after a reload, a refresh or a switch of the connected
\* account, a row is displayed with plaintext only if a decryption session
\* over the three handles of that row, for the connected account, has
\* resolved.
C17_PlaintextOnlyAfterOwnDecryption ==
    \A r \in 1 .. MaxPurchases :
        ShowsPlaintext(r) => <<account, handleContractPairs(rows[r])>> \in resolved

\* What the caller of decryptRow observes of an answer of the relayer that is
\* not a resolution: the text of the alert
Observed(res) == IF res.status = "ok" THEN "resolved" ELSE FailedToDecrypt(res)

\* The answers to three requests that differ from the request q, which is
\* valid but for the time, only in why they are denied: q after its window,
\* q with the signature of another principal, and q made and signed by
\* another principal, who holds no grant
DenialsOf(q) ==
    LET other == CHOOSE u \in Users : u # q.userAddress
        theirs == Sign(other, q.publicKey, q.contracts, q.start, q.duration)
    IN  << userDecrypt(q.handles, q.publicKey, q.signature, q.contracts,
                       q.userAddress, q.start, q.duration, q.start + q.duration),
           userDecrypt(q.handles, q.publicKey, theirs, q.contracts,
                       q.userAddress, q.start, q.duration, q.start),
           userDecrypt(q.handles, q.publicKey, theirs, q.contracts,
                       other, q.start, q.duration, q.start) >>

\* C18: a denial is one opaque value whatever its cause. The requests that
\* differ only in the reason of the denial (window elapsed, signature not
\* the requester's, capability missing) get the same answer, the caller
\* observes the same outcome for them, and every session of the view that the
\* relayer denies ends with that outcome and records nothing.
C18_DenialsIndistinguishable ==
    /\ [](\A n \in 1 .. Len(requests) :
            ValidButForTime(requests[n]) =>
              LET d == DenialsOf(requests[n])
              IN  /\ \A i \in 1 .. 3 : d[i].status # "ok"
                  /\ d[1] = d[2] /\ d[2] = d[3]
                  /\ Observed(d[1]) = Observed(d[2]) /\ Observed(d[2]) = Observed(d[3])
                  /\ Observed(d[1]) = "rejected")
    /\ [][\A k \in 1 .. Len(sessions) :
            (Ended(k) /\ sessions[k].pc = "submitted" /\ lastOutcome' # "resolved")
            => /\ lastOutcome' = "rejected"
               /\ decrypted' = decrypted
               /\ decryptingIndex' = NoIndex
               /\ UNCHANGED <<rows, count, error, isLoading>>]_vars

\* The one request sent so far was denied.
C18_Witness ==
    /\ Len(requests) = 1
    /\ ValidButForTime(requests[1])
    /\ sessions = <<>>
    /\ resolved = {}
    /\ lastOutcome = "rejected"

\* The requests sent with the keypair of the session s
RequestsOf(s) == { n \in 1 .. Len(requests) : requests[n].publicKey = publicKeyOf(s) }

\* C19: when the signer is not available or the signature is not obtained,
\* the session ends in failure: no request of the session was or is sent to
\* the relayer, nothing is recorded for the row, and nothing outside the
\* view changes.
C19_NoSignatureNoRequest ==
    /\ [](\A k \in 1 .. Len(sessions) :
            sessions[k].pc \in {"signer", "sign"} => RequestsOf(sessions[k]) = {})
    /\ [](\A n \in 1 .. Len(requests) : requests[n].publicKey[2] \in 1 .. started)
    /\ [][\A k \in 1 .. Len(sessions) :
            (Ended(k) /\ sessions[k].pc \in {"signer", "sign"})
            => /\ lastOutcome' = "aborted"
               /\ RequestsOf(sessions[k]) = {}
               /\ requests' = requests
               /\ decrypted' = decrypted /\ resolved' = resolved
               /\ decryptingIndex' = NoIndex
               /\ UNCHANGED <<ledgerVars, rows, count, started>>]_vars
    /\ [][requests' # requests =>
            \E k \in 1 .. Len(sessions) :
                /\ sessions[k].pc = "sign"
                /\ k \in 1 .. Len(sessions') /\ sessions'[k].pc = "submitted"
                /\ requests' = Append(requests, Request(sessions[k]))]_vars

\* The only session so far was aborted: no request was sent and nothing is
\* recorded for the row.
C19_Witness ==
    /\ started = 1
    /\ sessions = <<>>
    /\ lastOutcome = "aborted"
    /\ requests = <<>>
    /\ Len(rows) >= 1
    /\ decrypted = <<>>

\* C20: every session has a keypair and a signed authorization of its own
\* and sends at most one request, after the signature was obtained: the
\* requests sent differ pairwise in key and in signature, each is signed over
\* its own key and window, a session in flight has one request if it has
\* passed the signature and none before, and a session that ends sends
\* nothing more.
C20_OneRequestPerSession ==
    /\ [](\A n, m \in 1 .. Len(requests) :
            n # m => /\ requests[n].publicKey # requests[m].publicKey
                     /\ requests[n].signature # requests[m].signature)
    /\ [](\A n \in 1 .. Len(requests) :
            LET q == requests[n]
            IN  /\ q.signature = Sign(q.userAddress, q.publicKey, q.contracts, q.start, q.duration)
                /\ \A k \in 1 .. Len(sessions) :
                      q.publicKey = publicKeyOf(sessions[k]) => q = Request(sessions[k]))
    /\ [](\A k \in 1 .. Len(sessions) :
            Cardinality(RequestsOf(sessions[k])) =
                IF sessions[k].pc = "submitted" THEN 1 ELSE 0)
    /\ [][\A k \in 1 .. Len(sessions) :
            Ended(k) => /\ requests' = requests
                        /\ \A j \in 1 .. Len(sessions') :
                              publicKeyOf(sessions'[j]) # publicKeyOf(sessions[k])]_vars
    /\ [][Len(requests') > Len(requests) =>
            /\ Len(requests') = Len(requests) + 1
            /\ SubSeq(requests', 1, Len(requests)) = requests
            /\ \E k \in 1 .. Len(sessions) :
                  /\ sessions[k].pc = "sign"
                  /\ requests'[Len(requests')] = Request(sessions[k])]_vars

\* A request was denied; the retry is a new session, whose request, now in
\* flight, carries another key and another signature.
C20_Witness ==
    /\ Len(requests) = 2
    /\ requests[1].handles = requests[2].handles
    /\ requests[1].publicKey # requests[2].publicKey
    /\ lastOutcome = "rejected"
    /\ resolved = {}
    /\ Len(sessions) = 1 /\ sessions[1].pc = "submitted"
    /\ requests[2] = Request(sessions[1])

----------------------------------------------------------------------------
(* Properties of the write path *)

\* C21: the item is checked before any FHE.fromExternal call. A call whose
\* item has 0 or more than 64 bytes fails with InvalidItem having made no
\* fromExternal call, whatever its handles and proof are; a call that made a
\* fromExternal call had a valid item; so a failed call that made one failed
\* with the Scheme's error.
C21_ItemCheckedBeforeFromExternal ==
    /\ [](\A sender \in Users, item \in Items, b \in Inputs, shape \in Shapes :
            LET s == Submission(b, shape)
                r == addPurchase(sender, item, s[1], s[2], s[3], s[4])
            IN  /\ BadLength(item) => (r.status = "InvalidItem" /\ r.fromExternalCalls = 0)
                /\ r.fromExternalCalls > 0 => ~BadLength(item)
                /\ r.status = "InvalidItem" => r.fromExternalCalls = 0)
    /\ [][(IsFailedAdd(lastCall') /\ lastCall'.n > 0)
            => lastCall'.status = "InvalidProof"]_vars
    /\ [][(lastCall'.op = "addPurchase" /\ lastCall'.status = "InvalidItem")
            => lastCall'.n = 0]_vars

\* The first call to the store had an invalid item: it failed at the item
\* check, before any fromExternal call.
C21_Witness ==
    /\ TotalPurchases = 0
    /\ events = <<>>
    /\ lastCall = [op |-> "addPurchase", status |-> "InvalidItem", n |-> 0]

\* The handles stored in the records of an owner
HandlesOf(o) == UNION { RecordHandles(purchases[o][i]) : i \in 1 .. Len(purchases[o]) }

\* The grants of the relation grants on the handles hs
GrantsOn(grants, hs) == { g \in grants : g[1] \in hs }

\* C22: per-owner isolation. An addPurchase call by A, whether it succeeds or
\* fails, leaves the count and every record of every other owner B as they
\* were, and leaves the grants on the handles of B's records as they were.
C22_OwnerIsolation ==
    /\ [](\A A \in Users, item \in Items, b \in Inputs, shape \in Shapes :
            LET s == Submission(b, shape)
                r == addPurchase(A, item, s[1], s[2], s[3], s[4])
            IN  \A B \in Users \ {A} :
                  /\ r.purchases[B] = purchases[B]
                  /\ \A g \in (r.acl \ acl) \cup (acl \ r.acl) : g[1] \notin HandlesOf(B))
    /\ [][\A B \in Users :
            (lastCall'.op = "addPurchase" /\ okCount'[B] = okCount[B])
            => /\ getPurchaseCount(B)' = getPurchaseCount(B)
               /\ \A i \in 0 .. getPurchaseCount(B) : getPurchase(B, i)' = getPurchase(B, i)
               /\ \A g \in (acl' \ acl) \cup (acl \ acl') : g[1] \notin HandlesOf(B)]_vars

\* Another owner appended after alice, and then a call failed: alice still
\* has her one record, with the store and herself granted on its handles.
C22_Witness ==
    /\ Len(events) = 2
    /\ events[1].merchant = "alice" /\ events[2].merchant = "bob"
    /\ IsFailedAdd(lastCall)
    /\ getPurchaseCount("alice") = 1
    /\ GrantsOn(acl, HandlesOf("alice")) = HandlesOf("alice") \X {This, "alice"}

\* An item of n bytes
ItemOfBytes(n) == [text |-> "any", bytes |-> n]

\* The item check passes exactly the byte lengths 1 .. 64
ItemLengthLaw ==
    \A n \in 0 .. MaxItemBytes + 1 : ItemValid(ItemOfBytes(n)) <=> n \in 1 .. MaxItemBytes

\* C24: addPurchase with a valid proof succeeds for every item of 1 to 64
\* bytes, the lengths 1 and 64 included. The item check passes every byte
\* length in 1 .. 64; in every state, a call by the owner of an input with
\* the handles of that input and its proof succeeds for the lengths 1, 32
\* and 64 and appends the record with that item; and no call with an item
\* of 1 to 64 bytes, whatever its handles and proof, ends with InvalidItem.
C24_ItemLengthsInRangeSucceed ==
    /\ []ItemLengthLaw
    /\ [](\A b \in Inputs, n \in {1, 32, MaxItemBytes} :
            LET s == Submission(b, "asis")
                r == addPurchase(b[1], ItemOfBytes(n), s[1], s[2], s[3], s[4])
            IN  /\ r.status = "ok"
                /\ r.purchases[b[1]][r.index + 1].item = ItemOfBytes(n)
                /\ r.events[Len(r.events)].item = ItemOfBytes(n))
    /\ [](\A sender \in Users, item \in Items, b \in Inputs, shape \in Shapes :
            LET s == Submission(b, shape)
            IN  item.bytes \in 1 .. MaxItemBytes
                => addPurchase(sender, item, s[1], s[2], s[3], s[4]).status # "InvalidItem")

\* An item of one byte and an item of 64 bytes were both appended.
C24_Witness ==
    /\ Len(events) = 2
    /\ events[1].item.bytes = 1
    /\ events[2].item.bytes = MaxItemBytes
    /\ lastCall.op = "addPurchase" /\ lastCall.status = "ok"

----------------------------------------------------------------------------
(* Properties of the app *)

\* The rows of the most recent records of the store as it was when the load
\* read its count
SnapshotRows(l) ==
    LET idx == indices(Len(l.snapshot))
    IN  [i \in DOMAIN idx |->
            LET p == l.snapshot[idx[i] + 1]
            IN  [index |-> idx[i], userIdHandle |-> p.userId, item |-> p.item,
                 quantityHandle |-> p.quantity, amountHandle |-> p.amount,
                 timestamp |-> p.timestamp]]

\* C23: the listing reads a consistent snapshot although addPurchase calls of
\* any owner come between its reads. From the moment a load has read the
\* count, at whatever later moment one of its getPurchase calls is made, the
\* call does not fail with InvalidIndex and returns the record the store held
\* at that index when the count was read; a load that completes shows exactly
\* the most recent records of the store as of that moment.
C23_ListingReadsSnapshot ==
    /\ [](\A k \in 1 .. Len(loads) :
            loads[k].pc = "rows" =>
              LET l == loads[k]
                  idx == indices(l.purchaseCount)
              IN  /\ l.purchaseCount = Len(l.snapshot)
                  /\ \A i \in DOMAIN idx :
                        /\ getPurchase(l.address, idx[i]).status = "ok"
                        /\ RecordRow(idx[i], getPurchase(l.address, idx[i])) = SnapshotRows(l)[i])
    /\ [](error # "InvalidIndex")
    /\ [][\A k \in 1 .. Len(loads) :
            (/\ loads[k].pc = "rows" /\ ~loads[k].cancelled
             /\ loads' = RemoveAt(loads, k) /\ error' = "")
            => rows' = SnapshotRows(loads[k])]_vars

\* A load has read the count 1 of an owner, and before its getPurchase call
\* was answered the same owner appended a second record.
C23_Witness ==
    \E k \in 1 .. Len(loads) :
        /\ loads[k].pc = "rows" /\ ~loads[k].cancelled
        /\ loads[k].purchaseCount = 1
        /\ getPurchaseCount(loads[k].address) = 2

\* The Records view is rendered
RecordsShown == Shown(account, activeTab) = "records"

\* A load that was superseded writes nothing to the state of the view,
\* whether it ends with a count, with rows or with an error
StaleLoadsWriteNothing ==
    [][\A k \in 1 .. Len(loads) :
          (loads[k].cancelled /\ loads' = RemoveAt(loads, k))
          => UNCHANGED <<count, rows, error, isLoading>>]_vars

\* The rows shown are those of the records of the connected account, the
\* most recent first, as many as the count shown tells
ShowsRowsOfAccount ==
    /\ Len(rows) = capped(count)
    /\ \A i \in 1 .. Len(rows) :
          /\ getPurchase(account, count - i).status = "ok"
          /\ rows[i] = RecordRow(count - i, getPurchase(account, count - i))

\* C26: stale loads are discarded. A load that was superseded (the account
\* or refreshKey changed, or the view unmounted) writes neither count, rows,
\* error nor the loading flag, however its completion interleaves with the
\* load that superseded it; and once every load has finished, the rows shown
\* are those of the latest load: the rows of the connected account when that
\* load completed, none when it failed.
C26_StaleLoadsDiscarded ==
    /\ StaleLoadsWriteNothing
    /\ []((RecordsShown /\ loads = <<>>) =>
            IF error = "" THEN ShowsRowsOfAccount ELSE rows = <<>>)

\* The rows shown after a load that completed are those of that load
RowsOfCompletedLoad ==
    (RecordsShown /\ loads = <<>> /\ error = "") => ShowsRowsOfAccount

\* C30: the loading flag clears. Whenever an account is connected and no
\* load that has not been superseded is in flight, isLoading is false,
\* whatever refreshes, account changes, disconnects, reconnects, tab changes,
\* completions and failures came before; and while the Records view is
\* rendered, isLoading is true exactly when such a load is in flight.
C30_LoadingFlagClears ==
    /\ []((account # NoAccount /\ \A k \in 1 .. Len(loads) : loads[k].cancelled)
            => ~isLoading)
    /\ [](RecordsShown =>
            (isLoading <=> \E k \in 1 .. Len(loads) : ~loads[k].cancelled))
    /\ [](Cardinality({ k \in 1 .. Len(loads) : ~loads[k].cancelled }) <= 1)

\* After a refresh, the load that the refresh superseded ended last, after
\* the load of the refresh had failed; the view is not loading.
C30_Witness ==
    /\ RecordsShown
    /\ refreshKey = 1
    /\ loads = <<>>
    /\ error = "Failed to load records"
    /\ ~isLoading
    /\ lastCall.op = "none"

----------------------------------------------------------------------------
(* Properties of the form *)

\* v is a natural number of at most max
InRange(v, max) ==
    /\ v # Null
    /\ \A i \in 1 .. Len(v) : v[i] \in 0 .. 9
    /\ Len(v) = 1 \/ v[1] # 0
    /\ ~Greater(v, max)

\* Texts that are no integer of 0 .. 2^32 - 1: "4294967296", "-1", "1.5", "abc"
NotUint32 ==
    { <<"4", "2", "9", "4", "9", "6", "7", "2", "9", "6">>,
      <<"-", "1">>,
      <<"1", ".", "5">>,
      <<"a", "b", "c">> }

\* Texts that are no integer of 0 .. 2^64 - 1 for BigInt:
\* "18446744073709551616", "-1", "1.5", "2.0", "abc"
NotUint64 ==
    { <<"1", "8", "4", "4", "6", "7", "4", "4", "0", "7", "3", "7", "0", "9", "5", "5", "1", "6", "1", "6">>,
      <<"-", "1">>,
      <<"1", ".", "5">>,
      <<"2", ".", "0">>,
      <<"a", "b", "c">> }

\* The fillings with a field out of range
RejectedFillings ==
    { f \in Fillings :
        \/ f.userId \in NotUint32
        \/ f.quantity \in NotUint32
        \/ f.amount \in NotUint64
        \/ f.item.units \notin 1 .. MaxItemLength }

\* C25: the form reaches the encryption only with inputs in range. The values
\* of every submission (those given to add32, add32 and add64, and the item
\* sent) are integers of 0 .. 2^32 - 1 for userId and quantity, an integer of
\* 0 .. 2^64 - 1 for amount, and a trimmed item of 1 to 64 characters; a
\* submission starts only from a filling with every field in range and
\* carries the values parsed from it; and while a field is out of range no
\* submission starts and no transaction reaches the store.
C25_FormEncryptsInRange ==
    /\ [](\A k \in 1 .. Len(submits) :
            /\ InRange(submits[k].values.userId, UINT32_MAX)
            /\ InRange(submits[k].values.quantity, UINT32_MAX)
            /\ InRange(submits[k].values.amount, UINT64_MAX)
            /\ submits[k].values.item.pad = 0
            /\ submits[k].values.item.units \in 1 .. MaxItemLength)
    /\ [][Len(submits') > Len(submits)
            => /\ fields \notin RejectedFillings
               /\ submits'[Len(submits')].values = parsed(fields)]_vars
    /\ [][(fields \in RejectedFillings /\ submits = <<>>)
            => /\ submits' = <<>>
               /\ ~isSubmitting'
               /\ UNCHANGED <<purchases, acl, events, lastCall>>]_vars

\* The amount 2^64 - 1 was typed and submitted, and the transaction with it
\* has been executed.
C25_Witness ==
    \E k \in 1 .. Len(submits) :
        /\ submits[k].pc = "mined"
        /\ submits[k].values.amount = UINT64_MAX
        /\ submits[k].values.userId = <<1, 0, 0, 1>>

\* The form is rendered
FormShown == Shown(account, activeTab) = "add"

\* The submit() calls in flight that the rendered form started
OwnSubmits == { k \in 1 .. Len(submits) : ~submits[k].detached }

\* C28: isSubmitting is set when a submission starts and cleared when it
\* ends, on every path. While the form is rendered, isSubmitting is true
\* exactly when a submission the form started is in flight, and there is at
\* most one such submission; a submission starts only while isSubmitting is
\* false and sets it; and the step that ends the submission, whether by a
\* failed encryption, a missing signer, a failed send, a failed confirmation
\* or success, leaves isSubmitting false.
C28_SubmittingFlagFollowsSubmission ==
    /\ [](FormShown => (isSubmitting <=> OwnSubmits # {}))
    /\ [](Cardinality(OwnSubmits) <= 1)
    /\ [][Len(submits') > Len(submits) => (~isSubmitting /\ isSubmitting')]_vars
    /\ [][\A k \in OwnSubmits :
            (submits' = RemoveAt(submits, k) \/ submits' = RemoveAt(detach(submits), k))
            => ~isSubmitting']_vars
    /\ [](lastSubmitted \in {NoOutcome, "encryption failed", "no signer", "send failed",
                             "confirmation failed", "success"})

\* After a submission that succeeded, the form was opened again and a second
\* submission failed at the confirmation: the form is not locked.
C28_Witness ==
    /\ FormShown
    /\ succeeded = 1
    /\ lastSubmitted = "confirmation failed"
    /\ submits = <<>>
    /\ ~isSubmitting
    /\ canSubmit(account, fields, isSubmitting)

\* The loads that onSuccess started and that have read their count
ReloadsAfterSuccess ==
    { k \in 1 .. Len(loads) : loads[k].after # NoRecord /\ loads[k].pc = "rows" }

\* onSuccess() runs only in the step that ends a submission whose transaction
\* was confirmed, once, and selects the Records tab and increments refreshKey
OnSuccessOnlyAfterConfirmation ==
    /\ [][succeeded' # succeeded
            => /\ succeeded' = succeeded + 1
               /\ Len(submits') = Len(submits) - 1
               /\ \E k \in 1 .. Len(submits) :
                     /\ submits[k].pc = "mined"
                     /\ submits' \in {RemoveAt(submits, k), RemoveAt(detach(submits), k)}
                     /\ getPurchaseCount(submits[k].address) > submits[k].index
               /\ lastSubmitted' = "success"
               /\ activeTab' = "records"
               /\ refreshKey' = refreshKey + 1]_vars
    /\ [][(Len(submits') < Len(submits) /\ lastSubmitted' # "success")
            => /\ succeeded' = succeeded
               /\ UNCHANGED <<activeTab, refreshKey, loads>>]_vars
    /\ [](succeeded <= Len(events))

----------------------------------------------------------------------------
(* Properties of the Decrypt buttons *)

\* line 208: the Decrypt button of the row with this index is disabled (the
\* encryption instance is there)
ButtonDisabled(index) == decryptingIndex = index

\* C27: while a decryption session for a row is in flight, the Decrypt button
\* of that row is disabled, and at most one session per row is in flight,
\* also when Decrypt is clicked on another row before the first session has
\* finished.
C27_ButtonDisabledWhileInFlight ==
    /\ \A k \in 1 .. Len(sessions) : ButtonDisabled(sessions[k].row.index)
    /\ \A k1, k2 \in 1 .. Len(sessions) :
          sessions[k1].row.index = sessions[k2].row.index => k1 = k2

====
